---- MODULE Spec2Model ----
(***************************************************************************)
(* A model of the MCP meta-server: the aggregator / dispatcher             *)
(* (MCPMetaServer), its result cache (CachingSystem) and its tool          *)
(* deduplication (ToolDeduplicationSystem).                                *)
(*                                                                         *)
(* Strings are TLA+ strings; numbers that the program keeps as floating    *)
(* point (success rate, average response time, scores, TTLs) are exact     *)
(* rationals <<numerator, denominator>> in lowest terms.                   *)
(***************************************************************************)
EXTENDS Integers, Sequences, FiniteSets, TLC

VARIABLES
    now,                \* Date.now(), in milliseconds
    ticks,              \* number of clock advances so far (bounded)
    configs,            \* what discovery returns: a sequence of configs
    conn,               \* per config index: the state of its connectToServer
    startup,            \* position of start(): "init", "connecting", "ready"
    servers,            \* this.servers, in insertion order
    performanceMetrics, \* this.performanceMetrics: id -> (tool name -> metrics)
    cache,              \* the CachingSystem instance
    dedupConfig,        \* ToolDeduplicationSystem.config
    allTools,           \* this.allTools, in insertion order
    mergedTools,        \* this.mergedTools, in insertion order
    reqs,               \* upstream tools/call requests being handled
    sent,               \* history: every remote tools/call request sent
    closing,            \* position of shutdown(), how many times it was
                        \* called, whether the upstream session is closed
    sessions,           \* history: child sessions opened, per config index
    upstream,           \* history: what the upstream client was sent besides
                        \* call results: the last tools/list response and
                        \* the number of notifications
    cacheLog,           \* history: the operations applied to the cache
                        \* directly, with what they returned
    applied             \* a function of the deduplicator applied directly:
                        \* its name, its arguments and what it returned

vars == <<now, ticks, configs, conn, startup, servers, performanceMetrics,
          cache, dedupConfig, allTools, mergedTools, reqs, sent, closing,
          sessions, upstream, cacheLog, applied>>

----------------------------------------------------------------------------
(* Bounds of the model *)

\* the longest tool list given to mergeTools directly, the padding of the
\* large lists aside
MaxTools == 3

\* the longest string given to calculateStringSimilarity directly
MaxLen == 5

\* how far below 0 the index of executeWithLimit is followed when the
\* concurrency is negative
MaxBackward == 2

\* the most operations on the cache when getStats is among them
MaxStatOps == 4

MaxTicks == 2
MaxReqs == 2
MaxShutdowns == 2

----------------------------------------------------------------------------
(* Sequences and strings *)

Range(s) == {s[i] : i \in 1..Len(s)}

RECURSIVE SumFrom(_, _)
SumFrom(s, i) == IF i > Len(s) THEN 0 ELSE s[i] + SumFrom(s, i + 1)

SeqSum(s) == SumFrom(s, 1)

\* F(v), with v evaluated once
Then(v, F(_)) == CHOOSE out \in {F(x) : x \in {v}} : TRUE

RECURSIVE SelectIdx(_, _, _)
\* the indices of i..n, ascending, that are in S
SelectIdx(i, n, S) ==
    IF i > n THEN <<>>
    ELSE IF i = n THEN (IF i \in S THEN <<i>> ELSE <<>>)
    ELSE SelectIdx(i, (i + n) \div 2, S) \o SelectIdx((i + n) \div 2 + 1, n, S)

\* the sequence s with every element evaluated
Evaluated(s) == SubSeq(s, 1, Len(s))

\* F(v, u), with v and u evaluated once
Then2(v, u, F(_, _)) == CHOOSE out \in {F(x, y) : x \in {v}, y \in {u}} : TRUE

Max(a, b) == IF a >= b THEN a ELSE b
Min(a, b) == IF a <= b THEN a ELSE b

CharAt(s, i) == SubSeq(s, i, i)

\* String.prototype.includes
Includes(s, sub) ==
    Then2(s, sub, LAMBDA x, y :
        \E i \in 1..(Len(x) - Len(y) + 1) : SubSeq(x, i, i + Len(y) - 1) = y)

\* String.prototype.indexOf for a one-character needle, 1-based; 0 if absent
IndexOf(s, ch) ==
    IF Includes(s, ch)
    THEN CHOOSE i \in 1..Len(s) :
            /\ CharAt(s, i) = ch
            /\ \A j \in 1..(i - 1) : CharAt(s, j) # ch
    ELSE 0

UpperChars == "ABCDEFGHIJKLMNOPQRSTUVWXYZ"
LowerChars == "abcdefghijklmnopqrstuvwxyz"

\* the lower-case letter of each upper-case letter
LowerOf ==
    [c \in {CharAt(UpperChars, i) : i \in 1..Len(UpperChars)} |->
        CharAt(LowerChars, IndexOf(UpperChars, c))]

LowerChar(c) == IF c \in DOMAIN LowerOf THEN LowerOf[c] ELSE c

RECURSIVE LowerRange(_, _, _)
\* the characters lo..hi of s in lower case
LowerRange(s, lo, hi) ==
    IF lo > hi THEN ""
    ELSE IF lo = hi THEN LowerChar(CharAt(s, lo))
    ELSE LowerRange(s, lo, (lo + hi) \div 2) \o LowerRange(s, (lo + hi) \div 2 + 1, hi)

LowerFrom(s, i) == LowerRange(s, i, Len(s))

\* String.prototype.toLowerCase
toLowerCase(s) == LowerFrom(s, 1)

----------------------------------------------------------------------------
(* Exact rationals <<n, d>>, d > 0, in lowest terms *)

RECURSIVE Gcd(_, _)
\* Euclid's algorithm, three remainders at a time
Gcd(a, b) ==
    IF b = 0 THEN a
    ELSE IF a % b = 0 THEN b
    ELSE IF b % (a % b) = 0 THEN a % b
    ELSE Then2(b % (a % b), (a % b) % (b % (a % b)), LAMBDA x, y : Gcd(x, y))

Abs(a) == IF a < 0 THEN -a ELSE a

\* n / d in lowest terms, g being the greatest common divisor
Reduced(n, d, g) == IF n = 0 THEN <<0, 1>> ELSE <<n \div g, d \div g>>

Rat(n, d) == Then2(n, d, LAMBDA x, y : Then(Gcd(Abs(x), y), LAMBDA g : Reduced(x, y, g)))

RatAdd(a, b) == Then2(a, b, LAMBDA x, y : Rat(x[1] * y[2] + y[1] * x[2], x[2] * y[2]))
RatSub(a, b) == Then2(a, b, LAMBDA x, y : Rat(x[1] * y[2] - y[1] * x[2], x[2] * y[2]))
RatMul(a, b) == Then2(a, b, LAMBDA x, y : Rat(x[1] * y[1], x[2] * y[2]))
RatDiv(a, b) == Then2(a, b, LAMBDA x, y : Rat(x[1] * y[2], x[2] * y[1]))    \* b > 0
RatLT(a, b) == Then2(a, b, LAMBDA x, y : x[1] * y[2] < y[1] * x[2])
RatLE(a, b) == Then2(a, b, LAMBDA x, y : x[1] * y[2] <= y[1] * x[2])
RatMax(a, b) == Then2(a, b, LAMBDA x, y : IF RatLT(x, y) THEN y ELSE x)
RatMin(a, b) == Then2(a, b, LAMBDA x, y : IF RatLT(y, x) THEN y ELSE x)
Int2Rat(n) == <<n, 1>>

RECURSIVE RatSumRange(_, _, _)
\* s[lo] + ... + s[hi]
RatSumRange(s, lo, hi) ==
    IF lo > hi THEN <<0, 1>>
    ELSE IF lo = hi THEN s[lo]
    ELSE RatAdd(RatSumRange(s, lo, (lo + hi) \div 2),
                RatSumRange(s, (lo + hi) \div 2 + 1, hi))

RatSumFrom(s, i) == RatSumRange(s, i, Len(s))

RatSum(s) == RatSumFrom(s, 1)

----------------------------------------------------------------------------
(* ToolDeduplicationSystem                                                 *)
(* A tool is [name, description, inputSchema]; a missing description is    *)
(* "" (the code reads it through `description || ''`), a schema is         *)
(* [present, properties, required] with properties a sequence of           *)
(* [name, type] in key order.                                              *)

LargeSetLimit == 100
PrefixCap == 4

Schema(props, req) == [present |-> TRUE, properties |-> props, required |-> req]
NoSchema == [present |-> FALSE, properties |-> <<>>, required |-> <<>>]

DefaultDedupConfig ==
    [enabled |-> TRUE, similarityThreshold |-> <<4, 5>>, autoMerge |-> TRUE,
     nameWeight |-> <<2, 5>>, descriptionWeight |-> <<7, 20>>,
     schemaWeight |-> <<1, 4>>]

\* the loop of commonPrefixLength from index i (1-based): the number of
\* equal characters before the first difference or the end of a string
PrefixFrom(s1, s2, i) ==
    CHOOSE n \in 0..Max(0, Min(Len(s1), Len(s2)) - i + 1) :
        /\ \A k \in i..(i + n - 1) : CharAt(s1, k) = CharAt(s2, k)
        /\ \/ i + n > Min(Len(s1), Len(s2))
           \/ CharAt(s1, i + n) # CharAt(s2, i + n)

commonPrefixLength(s1, s2) == PrefixFrom(s1, s2, 1)

\* one iteration of the "find matches" loop: the character i of s1 takes
\* the first free equal character of s2 in its window, mm being
\* <<matched positions of s1, matched positions of s2>>
JaroStep(s1, s2, w, i, mm) ==
    Then({j \in Max(1, i - w)..Min(i + w, Len(s2)) :
             j \notin mm[2] /\ CharAt(s2, j) = CharAt(s1, i)},
         LAMBDA cands :
             IF cands = {} THEN mm
             ELSE <<{k \in 1..Len(s1) : k \in mm[1] \/ k = i},
                    {k \in 1..Len(s2) :
                        k \in mm[2] \/ k = (CHOOSE c \in cands : \A d \in cands : c <= d)}>>)

RECURSIVE JaroRange(_, _, _, _, _, _)
\* the iterations lo..hi of that loop, as the first half of them followed by
\* the second
JaroRange(s1, s2, w, lo, hi, mm) ==
    IF lo > hi THEN mm
    ELSE IF lo = hi THEN JaroStep(s1, s2, w, lo, mm)
    ELSE Then(JaroRange(s1, s2, w, lo, (lo + hi) \div 2, mm),
              LAMBDA left : JaroRange(s1, s2, w, (lo + hi) \div 2 + 1, hi, left))

\* the "find matches" loop: <<matched positions of s1, matched positions of s2>>
JaroMatch(s1, s2, w, i, m1, m2) == JaroRange(s1, s2, w, i, Len(s1), <<m1, m2>>)

\* the transpositions loop over the matched positions p1 of s1 and p2 of s2
JaroTranspositions(s1, s2, p1, p2) ==
    Cardinality({k \in 1..Len(p1) : CharAt(s1, p1[k]) # CharAt(s2, p2[k])})

\* the last line of jaroSimilarity with the length of s1 in both quotients
JaroValueOneSided(len1, len2, matches, transpositions) ==
    IF matches = 0 THEN <<0, 1>>
    ELSE RatDiv(RatAdd(RatAdd(Rat(matches, len1), Rat(matches, len1)),
                       Rat(2 * matches - transpositions, 2 * matches)),
                <<3, 1>>)

\* the last line of jaroSimilarity
JaroValue(len1, len2, matches, transpositions) ==
    IF matches = 0 THEN <<0, 1>>
    ELSE RatDiv(RatAdd(RatAdd(Rat(matches, len1), Rat(matches, len2)),
                       Rat(2 * matches - transpositions, 2 * matches)),
                <<3, 1>>)

\* jaroSimilarity once the matches mm are found
JaroOfMatches(s1, s2, mm) ==
    JaroValue(Len(s1), Len(s2), Cardinality(mm[1]),
              JaroTranspositions(s1, s2, SelectIdx(1, Len(s1), mm[1]),
                                 SelectIdx(1, Len(s2), mm[2])))

jaroSimilarity(s1, s2) ==
    IF Len(s1) = 0 /\ Len(s2) = 0 THEN <<1, 1>>
    ELSE IF Len(s1) = 0 \/ Len(s2) = 0 THEN <<0, 1>>
    ELSE Then(JaroMatch(s1, s2, (Max(Len(s1), Len(s2)) \div 2) - 1, 1, {}, {}),
              LAMBDA mm : JaroOfMatches(s1, s2, mm))

\* jaro + prefixLength * 0.1 * (1 - jaro), capped at 1
JaroWinkler(jaro, prefixLength) ==
    RatMin(<<1, 1>>, RatAdd(jaro, RatMul(Rat(prefixLength, 10), RatSub(<<1, 1>>, jaro))))

\* calculateStringSimilarity on the lower-cased strings
LowerCasedSimilarity(l1, l2) ==
    Then(jaroSimilarity(l1, l2),
         LAMBDA jaro : JaroWinkler(jaro, Min(PrefixCap, commonPrefixLength(l1, l2))))

calculateStringSimilarity(str1, str2) ==
    IF str1 = "" \/ str2 = "" THEN <<0, 1>>
    ELSE IF str1 = str2 THEN <<1, 1>>
    ELSE Then2(toLowerCase(str1), toLowerCase(str2), LowerCasedSimilarity)

\* extractSchemaProperties: (name, type) of each property, no type -> unknown
extractSchemaProperties(schema) ==
    [i \in 1..Len(schema.properties) |->
        [name |-> schema.properties[i].name,
         type |-> IF schema.properties[i].type = "" THEN "unknown"
                  ELSE schema.properties[i].type]]

\* how many elements of the sequence a occur in the sequence b
CommonCount(a, b) == Cardinality({i \in 1..Len(a) : a[i] \in Range(b)})

\* calculateSchemaSimilarity on the extracted properties and required lists
PropsSimilarity(props1, props2, required1, required2) ==
    IF Len(props1) = 0 /\ Len(props2) = 0 THEN <<1, 1>>
    ELSE IF Len(props1) = 0 \/ Len(props2) = 0 THEN <<0, 1>>
    ELSE RatAdd(RatMul(Rat(2 * CommonCount(props1, props2), Len(props1) + Len(props2)),
                       <<7, 10>>),
                RatMul(IF Len(required1) + Len(required2) > 0
                       THEN Rat(2 * CommonCount(required1, required2),
                                Len(required1) + Len(required2))
                       ELSE <<1, 1>>,
                       <<3, 10>>))

calculateSchemaSimilarity(schema1, schema2) ==
    IF ~schema1.present \/ ~schema2.present THEN <<0, 1>>
    ELSE IF schema1 = schema2 THEN <<1, 1>>
    ELSE PropsSimilarity(extractSchemaProperties(schema1),
                         extractSchemaProperties(schema2),
                         schema1.required, schema2.required)

\* the weighted sum of analyzeSimilarity; texts are <<name, description>>
WeightedScore(cfg, texts, schemaSimilarity) ==
    RatAdd(RatAdd(RatMul(texts[1], cfg.nameWeight),
                  RatMul(texts[2], cfg.descriptionWeight)),
           RatMul(schemaSimilarity, cfg.schemaWeight))

\* analyzeSimilarity(...).score
analyzeSimilarity(cfg, tool1, tool2) ==
    Then2(calculateStringSimilarity(tool1.name, tool2.name),
          calculateStringSimilarity(tool1.description, tool2.description),
          LAMBDA nameScore, descScore :
              WeightedScore(cfg, <<nameScore, descScore>>,
                  calculateSchemaSimilarity(tool1.inputSchema, tool2.inputSchema)))

\* the first index of the longest of the strings ds: what a reduce that
\* replaces its accumulator only by a strictly longer string ends with
FirstLongest(ds) ==
    CHOOSE i \in 1..Len(ds) :
        /\ \A j \in 1..Len(ds) : Len(ds[j]) <= Len(ds[i])
        /\ \A j \in 1..(i - 1) : Len(ds[j]) < Len(ds[i])

\* selectBestTool: the longest description wins, the first on ties
selectBestTool(group) ==
    group[FirstLongest([i \in 1..Len(group) |-> group[i].tool.description])]

\* generateMergedName: the most frequent name, the first seen on ties
NameCount(group, n) == Cardinality({i \in 1..Len(group) : group[i].tool.name = n})

NameFirst(group, n) ==
    CHOOSE i \in 1..Len(group) :
        /\ group[i].tool.name = n
        /\ \A j \in 1..(i - 1) : group[j].tool.name # n

\* n is more frequent in the group than o, or as frequent and seen first
NameBeats(group, counts, firsts, n, o) ==
    \/ counts[n] > counts[o]
    \/ counts[n] = counts[o] /\ firsts[n] < firsts[o]

MostFrequent(group, names, counts, firsts) ==
    CHOOSE n \in names : \A o \in names \ {n} : NameBeats(group, counts, firsts, n, o)

generateMergedName(group) ==
    MostFrequent(group, {group[i].tool.name : i \in 1..Len(group)},
                 [n \in {group[i].tool.name : i \in 1..Len(group)} |-> NameCount(group, n)],
                 [n \in {group[i].tool.name : i \in 1..Len(group)} |-> NameFirst(group, n)])

LongestOf(ds) ==
    IF Len(ds) = 0 THEN "Merged tool from multiple servers"
    ELSE ds[FirstLongest(ds)]

generateMergedDescription(group) ==
    LongestOf(SelectSeq([i \in 1..Len(group) |-> group[i].tool.description],
                        LAMBDA d : d # ""))

\* the merged tool of one similarity group; sims are the scores that attached
\* the members after the first
MergedOf(group, sims, bestTool) ==
    [name |-> generateMergedName(group),
     description |-> generateMergedDescription(group),
     inputSchema |-> bestTool.tool.inputSchema,
     originalTools |-> group,
     confidence |-> IF Len(sims) > 0
                    THEN RatDiv(RatSum(sims), <<Len(sims), 1>>)
                    ELSE <<1, 1>>,
     serverId |-> bestTool.serverId]

\* every group averaged, a group of one tool included
MakeMergedAveraged(group, sims) ==
    [MergedOf(group, sims, selectBestTool(group)) EXCEPT
        !.confidence = IF Len(sims) > 0 THEN RatDiv(RatSum(sims), <<Len(sims), 1>>)
                       ELSE <<0, 1>>]

MakeMerged(group, sims) ==
    IF Len(group) > 1
    THEN MergedOf(group, sims, selectBestTool(group))
    ELSE [name |-> group[1].tool.name,
          description |-> group[1].tool.description,
          inputSchema |-> group[1].tool.inputSchema,
          originalTools |-> group,
          confidence |-> <<1, 1>>,
          serverId |-> group[1].serverId]

\* the group of tools[i] and the tools at the ascending indices idx
GroupOf(tools, i, idx) == <<tools[i]>> \o [k \in 1..Len(idx) |-> tools[idx[k]]]

\* the score the table holds for the tools a and b
TableScore(table, a, b) == (CHOOSE t \in table : t[1] = a /\ t[2] = b)[3]

\* the inner loop of mergeTools for tools[i]: scores[j] is the similarity of
\* tools[i] and tools[j], attached the later unprocessed tools over the
\* threshold: <<the similarity group found, the indices processed after it>>
\* an inner loop that leaves out processed.add(j)
GreedyGroupUnmarked(cfg, tools, i, processed, scores, attached) ==
    Then(SelectIdx(i + 1, Len(tools), attached),
         LAMBDA idx :
             <<<<[pivot |-> i, idx |-> idx,
                  similarities |-> Evaluated([k \in 1..Len(idx) |-> scores[idx[k]]])]>>,
               {k \in 1..Len(tools) : k \in processed \/ k = i}>>)

GreedyGroup(cfg, tools, i, processed, scores, attached) ==
    Then(SelectIdx(i + 1, Len(tools), attached),
         LAMBDA idx :
             <<<<[pivot |-> i, idx |-> idx,
                  similarities |-> Evaluated([k \in 1..Len(idx) |-> scores[idx[k]]])]>>,
               {k \in 1..Len(tools) : k \in processed \/ k \in attached \/ k = i}>>)

GreedyScored(cfg, tools, i, processed, scores) ==
    Then({j \in (i + 1)..Len(tools) :
             j \notin processed /\ RatLE(cfg.similarityThreshold, scores[j])},
         LAMBDA attached : GreedyGroup(cfg, tools, i, processed, scores, attached))

\* one iteration of the outer loop of mergeTools; table holds the score of
\* analyzeSimilarity for each pair of tools the loop may compare
GreedyStep(cfg, tools, i, processed, table) ==
    IF i \in processed THEN <<<<>>, processed>>
    ELSE Then(Evaluated([j \in 1..Len(tools) |->
                            IF j > i /\ j \notin processed
                            THEN TableScore(table, tools[i].tool, tools[j].tool)
                            ELSE <<0, 1>>]),
              LAMBDA scores : GreedyScored(cfg, tools, i, processed, scores))

\* two runs of iterations one after the other
LoopJoin(left, right) == <<left[1] \o right[1], right[2]>>

RECURSIVE GreedyRange(_, _, _, _, _, _)
\* the iterations lo..hi of the outer loop, as the first half of them
\* followed by the second: <<the groups found, the indices processed>>
GreedyRange(cfg, tools, lo, hi, processed, table) ==
    IF lo > hi THEN <<<<>>, processed>>
    ELSE IF lo = hi THEN GreedyStep(cfg, tools, lo, processed, table)
    ELSE Then(GreedyRange(cfg, tools, lo, (lo + hi) \div 2, processed, table),
              LAMBDA left :
                  LoopJoin(left, GreedyRange(cfg, tools, (lo + hi) \div 2 + 1, hi,
                                             left[2], table)))

\* analyzeSimilarity(a, b).score for every pair of tools (a, b) with a
\* before b in the list, as triples <<a, b, score>>
SimilarityTable(cfg, tools) ==
    {<<p[1], p[2], analyzeSimilarity(cfg, p[1], p[2])>> :
        p \in {<<tools[q[1]].tool, tools[q[2]].tool>> :
                  q \in {r \in (1..Len(tools)) \X (1..Len(tools)) : r[1] < r[2]}}}

\* the greedy single pass over tools[i..], skipping the processed indices
GreedyGroups(cfg, tools, i, processed) ==
    Then(SimilarityTable(cfg, tools),
         LAMBDA table : GreedyRange(cfg, tools, i, Len(tools), processed, table)[1])

\* the merged tool pushed for each group, in the order of the pivots
GreedyMerge(cfg, tools, i, processed) ==
    Then(GreedyGroups(cfg, tools, i, processed),
         LAMBDA groups :
             Evaluated([g \in 1..Len(groups) |->
                 MakeMerged(GroupOf(tools, groups[g].pivot, groups[g].idx),
                            groups[g].similarities)]))

\* the group of tools[i]: <<the group pushed, the indices processed after it>>
NameGroup(tools, i, processed, attached) ==
    <<<<GroupOf(tools, i, SelectIdx(i + 1, Len(tools), attached))>>,
      {k \in 1..Len(tools) : k \in processed \/ k \in attached \/ k = i}>>

\* one iteration of the outer loop of groupToolsByNameSimilarity; table
\* holds calculateStringSimilarity for each pair of names it may compare
NameStep(tools, i, processed, table) ==
    IF i \in processed THEN <<<<>>, processed>>
    ELSE NameGroup(tools, i, processed,
             {j \in (i + 1)..Len(tools) :
                 /\ j \notin processed
                 /\ RatLT(<<3, 5>>,
                          TableScore(table, tools[i].tool.name, tools[j].tool.name))})

RECURSIVE NameRange(_, _, _, _, _)
\* the iterations lo..hi of that loop
NameRange(tools, lo, hi, processed, table) ==
    IF lo > hi THEN <<<<>>, processed>>
    ELSE IF lo = hi THEN NameStep(tools, lo, processed, table)
    ELSE Then(NameRange(tools, lo, (lo + hi) \div 2, processed, table),
              LAMBDA left :
                  LoopJoin(left, NameRange(tools, (lo + hi) \div 2 + 1, hi, left[2],
                                           table)))

\* calculateStringSimilarity(a, b) for every pair of names (a, b) with a
\* before b in the list, as triples <<a, b, similarity>>
NameTable(tools) ==
    {<<p[1], p[2], calculateStringSimilarity(p[1], p[2])>> :
        p \in {<<tools[q[1]].tool.name, tools[q[2]].tool.name>> :
                  q \in {r \in (1..Len(tools)) \X (1..Len(tools)) : r[1] < r[2]}}}

groupToolsByNameSimilarity(tools, i, processed) ==
    Then(NameTable(tools),
         LAMBDA table : NameRange(tools, i, Len(tools), processed, table)[1])

RECURSIVE ClusterRange(_, _, _, _)
\* the merged tools of the name groups lo..hi, in order
ClusterRange(cfg, groups, lo, hi) ==
    IF lo > hi THEN <<>>
    ELSE IF lo = hi THEN GreedyMerge(cfg, groups[lo], 1, {})
    ELSE ClusterRange(cfg, groups, lo, (lo + hi) \div 2)
             \o ClusterRange(cfg, groups, (lo + hi) \div 2 + 1, hi)

ClusterMerge(cfg, groups, g) == ClusterRange(cfg, groups, g, Len(groups))

mergeToolsWithClustering(cfg, tools) ==
    ClusterMerge(cfg, groupToolsByNameSimilarity(tools, 1, {}), 1)

mergeTools(cfg, tools) ==
    IF ~cfg.enabled \/ Len(tools) = 0 THEN <<>>
    ELSE IF Len(tools) > LargeSetLimit THEN mergeToolsWithClustering(cfg, tools)
    ELSE GreedyMerge(cfg, tools, 1, {})


----------------------------------------------------------------------------
(* PerformanceMetrics and the scoring function of MCPMetaServer *)

HourMs == 3600000
SlowResponseMs == 10000

NewMetrics(t) ==
    [successRate |-> <<1, 1>>, avgResponseTime |-> <<0, 1>>, lastUsed |-> t,
     totalCalls |-> 0, failureCount |-> 0]

\* initializeServerMetrics: a fresh entry per advertised tool name
initializeServerMetrics(pm, serverId, tools, t) ==
    LET names == {tools[i].name : i \in 1..Len(tools)}
        fresh == [n \in names |-> NewMetrics(t)]
    IN  [id \in DOMAIN pm \cup {serverId} |-> IF id = serverId THEN fresh ELSE pm[id]]

\* the body of updateMetrics on one entry
Recorded(m, calls, fails, responseTime, t) ==
    [successRate |-> Rat(calls - fails, calls),
     avgResponseTime |->
         RatDiv(RatAdd(RatMul(m.avgResponseTime, <<calls - 1, 1>>),
                       <<responseTime, 1>>),
                <<calls, 1>>),
     lastUsed |-> t,
     totalCalls |-> calls,
     failureCount |-> fails]

RecordCall(m, success, responseTime, t) ==
    Recorded(m, m.totalCalls + 1, m.failureCount + (IF success THEN 0 ELSE 1),
             responseTime, t)

updateMetrics(pm, serverId, toolName, success, responseTime, t) ==
    IF serverId \notin DOMAIN pm THEN pm
    ELSE IF toolName \notin DOMAIN pm[serverId] THEN pm
    ELSE [pm EXCEPT ![serverId][toolName] = RecordCall(@, success, responseTime, t)]

calculateRecencyScore(lastUsed, t) ==
    LET sinceUsed == t - lastUsed
    IN  IF sinceUsed < HourMs THEN <<1, 1>>
        ELSE IF sinceUsed < 24 * HourMs THEN <<4, 5>>
        ELSE IF sinceUsed < 168 * HourMs THEN <<3, 5>>
        ELSE <<2, 5>>

\* the composite score of one metrics entry
MetricsScore(m, t) ==
    IF m.totalCalls = 0 THEN <<1, 2>>
    ELSE LET successScore == m.successRate
             responseScore ==
                 RatMax(<<0, 1>>,
                        RatSub(<<1, 1>>,
                               RatDiv(m.avgResponseTime, <<SlowResponseMs, 1>>)))
             recencyScore == calculateRecencyScore(m.lastUsed, t)
         IN  RatAdd(RatAdd(RatMul(successScore, <<1, 2>>),
                           RatMul(responseScore, <<3, 10>>)),
                    RatMul(recencyScore, <<1, 5>>))

calculateServerScore(pm, serverId, toolName, t) ==
    IF serverId \notin DOMAIN pm THEN <<1, 2>>
    ELSE IF toolName \notin DOMAIN pm[serverId] THEN <<1, 2>>
    ELSE MetricsScore(pm[serverId][toolName], t)

\* determineToolType on the lower-cased name
TypeOfLowerCased(name) ==
        IF Includes(name, "file") \/ Includes(name, "read") \/ Includes(name, "write")
        THEN "filesystem"
        ELSE IF Includes(name, "db") \/ Includes(name, "sql") \/ Includes(name, "query")
        THEN "database"
        ELSE IF Includes(name, "http") \/ Includes(name, "api")
                \/ Includes(name, "request")
        THEN "network"
        ELSE IF Includes(name, "compute") \/ Includes(name, "calculate")
                \/ Includes(name, "process")
        THEN "computation"
        ELSE IF Includes(name, "static") \/ Includes(name, "const")
                \/ Includes(name, "reference")
        THEN "static"
        ELSE "default"

determineToolType(toolName) ==
    Then(toLowerCase(toolName), LAMBDA name : TypeOfLowerCased(name))

----------------------------------------------------------------------------
(* JSON.stringify of call arguments and of tool results                    *)
(* Arguments are a record: fields is the <<key, value>> pairs of a tool's  *)
(* arguments object in insertion order, the other fields are the named     *)
(* parameters of the meta-tools; a result is the text of its content.      *)

\* the optional fields are sequences of length 0 (absent) or 1
BaseArgs ==
    [defined |-> TRUE, fields |-> <<>>, operations |-> <<>>, concurrency |-> <<>>,
     enabled |-> <<>>, similarityThreshold |-> <<>>, autoMerge |-> <<>>,
     getStats |-> FALSE, task |-> <<>>, tool1 |-> "", tool2 |-> ""]
NoArgs == [BaseArgs EXCEPT !.defined = FALSE]
Args(fields) == [BaseArgs EXCEPT !.fields = fields]

RECURSIVE FieldsFrom(_, _)
FieldsFrom(fs, i) ==
    IF i > Len(fs) THEN ""
    ELSE "\"" \o fs[i][1] \o "\":\"" \o fs[i][2] \o "\""
         \o (IF i < Len(fs) THEN "," ELSE "") \o FieldsFrom(fs, i + 1)

\* the members of an object, in key order
StringifyFields(fs) == FieldsFrom(fs, 1)

StringifyArgs(args) ==
    IF args.defined THEN "{" \o StringifyFields(args.fields) \o "}" ELSE "undefined"

StringifyResult(data) ==
    "{\"content\":[{\"type\":\"text\",\"text\":\"" \o data \o "\"}]}"

CacheKey(serverId, toolName, args) ==
    serverId \o ":" \o toolName \o ":" \o StringifyArgs(args)

----------------------------------------------------------------------------
(* CachingSystem                                                           *)
(* [entries, totalRequests, totalHits, toolTypeTTL, maxSize]; entries is   *)
(* the Map in insertion order.                                             *)

DefaultTTL == 300000
MaxSize == 1000
MinTTL == 60000
MaxTTL == 3600000

InitialToolTypeTTL ==
    [ty \in {"filesystem", "database", "network", "computation", "static"} |->
        CASE ty = "filesystem" -> <<60000, 1>>
          [] ty = "database" -> <<180000, 1>>
          [] ty = "network" -> <<120000, 1>>
          [] ty = "computation" -> <<600000, 1>>
          [] OTHER -> <<3600000, 1>>]

NewCache(size) ==
    [entries |-> <<>>, totalRequests |-> 0, totalHits |-> 0,
     toolTypeTTL |-> InitialToolTypeTTL, maxSize |-> size]

KeyIndex(entries, key) ==
    IF \E i \in 1..Len(entries) : entries[i].key = key
    THEN CHOOSE i \in 1..Len(entries) : entries[i].key = key
    ELSE 0

RemoveAt(s, i) == SubSeq(s, 1, i - 1) \o SubSeq(s, i + 1, Len(s))

getTTLForToolType(c, toolType) ==
    IF toolType \in DOMAIN c.toolTypeTTL THEN c.toolTypeTTL[toolType]
    ELSE <<DefaultTTL, 1>>

\* shouldCache(toolName, params) with the values CachingSystem.set passes
shouldCache(toolName, params) ==
    IF Includes(toolName, "random") \/ Includes(toolName, "uuid") THEN FALSE
    ELSE IF Includes(toolName, "current_time") \/ Includes(toolName, "now") THEN FALSE
    ELSE \A word \in {"timestamp", "current"} :
            ~Includes(toLowerCase(StringifyResult(params)), word)

\* a get that also returns an entry whose expiry is the time of the get
GetAtInclusive(c, i, t) ==
    IF i # 0 /\ RatLE(<<t, 1>>, c.entries[i].expiry)
    THEN [cache |-> [c EXCEPT !.entries[i].hitCount = @ + 1,
                              !.entries[i].lastAccess = t,
                              !.totalHits = @ + 1],
          hit |-> TRUE, data |-> c.entries[i].data]
    ELSE [cache |-> IF i # 0 THEN [c EXCEPT !.entries = RemoveAt(@, i)] ELSE c,
          hit |-> FALSE, data |-> ""]

\* get(key): [cache, hit, data]
\* get(key) for the index i of the key's entry (0: none), after totalRequests++
GetAt(c, i, t) ==
    IF i # 0 /\ RatLT(<<t, 1>>, c.entries[i].expiry)
    THEN [cache |-> [c EXCEPT !.entries[i].hitCount = @ + 1,
                              !.entries[i].lastAccess = t,
                              !.totalHits = @ + 1],
          hit |-> TRUE, data |-> c.entries[i].data]
    ELSE [cache |-> IF i # 0 THEN [c EXCEPT !.entries = RemoveAt(@, i)] ELSE c,
          hit |-> FALSE, data |-> ""]

CacheGet(c, key, t) ==
    GetAt([c EXCEPT !.totalRequests = @ + 1], KeyIndex(c.entries, key), t)

\* the first entry with the least lastAccess among the indices older
Oldest(entries, older) ==
    CHOOSE i \in older :
        \A j \in older : /\ entries[i].lastAccess <= entries[j].lastAccess
                         /\ j < i => entries[j].lastAccess > entries[i].lastAccess

EvictAmong(entries, older) ==
    IF older = {} THEN entries ELSE RemoveAt(entries, Oldest(entries, older))

evictLeastRecentlyUsed(entries, t) ==
    EvictAmong(entries, {i \in 1..Len(entries) : entries[i].lastAccess < t})

\* set(key, data, undefined, toolType)
\* this.cache.set(key, entry) on the entries kept
PutEntry(kept, i, entry) ==
    IF i # 0 THEN [kept EXCEPT ![i] = entry] ELSE Append(kept, entry)

StoreIn(kept, entry) ==
    Then2(kept, entry, LAMBDA m, e : PutEntry(m, KeyIndex(m, e.key), e))

CacheSet(c, key, data, toolType, t) ==
    IF ~shouldCache(key, data) THEN c
    ELSE [c EXCEPT !.entries =
             StoreIn(IF Len(c.entries) >= c.maxSize
                     THEN evictLeastRecentlyUsed(c.entries, t)
                     ELSE c.entries,
                     [key |-> key, data |-> data,
                      expiry |-> RatAdd(<<t, 1>>, getTTLForToolType(c, toolType)),
                      hitCount |-> 0, lastAccess |-> t, toolType |-> toolType])]

\* getToolTypeMetrics()[toolType].hitRate
HitRateOf(avgHitCount, totalRequests) ==
    IF RatLT(<<0, 1>>, avgHitCount)
    THEN RatDiv(avgHitCount, <<totalRequests, 1>>)
    ELSE <<0, 1>>

AvgHitCount(of) == Rat(SeqSum([i \in 1..Len(of) |-> of[i].hitCount]), Len(of))

ToolTypeHitRate(c, toolType) ==
    HitRateOf(AvgHitCount(SelectSeq(c.entries, LAMBDA e : e.toolType = toolType)),
              c.totalRequests)

\* adjustTTL(toolType, hitRate): the new TTL of toolType
AdjustedTTL(currentTTL, hitRate) ==
    IF RatLT(<<7, 10>>, hitRate)
    THEN RatMin(RatMul(currentTTL, <<6, 5>>), <<MaxTTL, 1>>)
    ELSE IF RatLT(hitRate, <<1, 5>>)
    THEN RatMax(RatMul(currentTTL, <<4, 5>>), <<MinTTL, 1>>)
    ELSE currentTTL

adjustTTL(c, toolType, hitRate) ==
    AdjustedTTL(getTTLForToolType(c, toolType), hitRate)

\* getStats(): its effect on the cache (updateToolTypeMetricsAndAdjustTTLs)
\* toolTypeTTL.set for the types whose adjusted TTL differs from the current
WithTTLs(c, adjusted) ==
    [c EXCEPT !.toolTypeTTL =
        [ty \in DOMAIN @ \cup {a \in DOMAIN adjusted :
                                   adjusted[a] # getTTLForToolType(c, a)} |->
            IF ty \in DOMAIN adjusted /\ adjusted[ty] # getTTLForToolType(c, ty)
            THEN adjusted[ty]
            ELSE @[ty]]]

\* get_cache_stats that also counts itself as a request to the cache
CacheGetStatsCounted(c) ==
    [WithTTLs(c, [ty \in {c.entries[i].toolType : i \in 1..Len(c.entries)} |->
                     adjustTTL(c, ty, ToolTypeHitRate(c, ty))])
        EXCEPT !.totalRequests = @ + 1]

CacheGetStats(c) ==
    WithTTLs(c, [ty \in {c.entries[i].toolType : i \in 1..Len(c.entries)} |->
                    adjustTTL(c, ty, ToolTypeHitRate(c, ty))])


----------------------------------------------------------------------------
(* The downstream providers (the environment)                              *)

ReadSchema == Schema(<<[name |-> "path", type |-> "string"]>>, <<"path">>)
ReadTool == [name |-> "read", description |-> "Read a file", inputSchema |-> ReadSchema]
RandomTool ==
    [name |-> "get_random", description |-> "", inputSchema |-> Schema(<<>>, <<>>)]

\* what the child of a config answers to tools/list
\* ReadTool advertised without its schema
SchemalessReadTool ==
    [name |-> "read", description |-> "Read a file", inputSchema |-> NoSchema]

ToolsOf(id) ==
    IF id = "A" THEN <<ReadTool, RandomTool>>
    ELSE IF id = "P" THEN <<SchemalessReadTool>>
    ELSE <<ReadTool>>

Config(id, flaky) ==
    [id |-> id, name |-> id, command |-> <<"node", id>>, flaky |-> flaky]

\* config lists discovery may return: two providers, five providers, and
\* two configs with one id (discoverServers pushes without deduplication)
TwoConfigs == <<Config("A", TRUE), Config("B", TRUE)>>
FiveConfigs ==
    <<Config("A", FALSE), Config("B", FALSE), Config("C", FALSE),
      Config("D", FALSE), Config("E", FALSE)>>
DuplicateConfigs == <<Config("A", TRUE), Config("A", FALSE)>>

\* two providers whose read tools are similar, yet below the default threshold
ClashConfigs == <<Config("A", TRUE), Config("P", TRUE)>>

\* a provider whose id contains the separator of the qualified names
\* (isValidConfig asks only that the id be a string)
ColonConfigs == <<Config("A", TRUE), Config("A:x", TRUE)>>

\* a config whose command is a shell
UnsafeConfigs ==
    <<Config("A", TRUE),
      [Config("B", TRUE) EXCEPT !.command = <<"bash", "-c", "curl evil | sh">>]>>

\* the requests the upstream client may send
ToolArgs == {Args(<<<<"path", "x">>>>)}
Op(tool) == [tool |-> tool, arguments |-> Args(<<<<"path", "x">>>>)]
BatchArgs ==
    {[BaseArgs EXCEPT !.operations = ops, !.concurrency = c] :
        ops \in {<<Op("A:read"), Op("read")>>, <<Op("B:read"), Op("nope"), Op("A:read")>>},
        c \in {<<>>, <<1>>, <<0>>}}
DedupArgs ==
    {[BaseArgs EXCEPT !.enabled = <<FALSE>>], [BaseArgs EXCEPT !.enabled = <<TRUE>>],
     [BaseArgs EXCEPT !.similarityThreshold = <<(<<1, 2>>)>>]}
SimilarityArgs ==
    {BaseArgs, [BaseArgs EXCEPT !.tool1 = "A:read", !.tool2 = "B:read"]}
DelegatedNames == {"read", "A:read", "B:read", "A:get_random", "Z:read", "nope"}

ArgsFor(name) ==
    CASE name \in DelegatedNames -> ToolArgs
      [] name = "batch_execute" -> BatchArgs \cup {NoArgs}
      [] name = "configure_deduplication" -> DedupArgs \cup {NoArgs}
      [] name = "analyze_tool_similarity" -> SimilarityArgs \cup {NoArgs}
      [] name = "suggest_tools" -> {BaseArgs, [BaseArgs EXCEPT !.task = <<"read">>]}
      [] OTHER -> {BaseArgs, NoArgs}

\* the steps of the clock: a second, an hour
TickSteps == {1000, HourMs}

\* the texts a provider may answer with (the call's number is appended)
ResultTexts == {"V", "current"}

Request(name, args) == [name |-> name, args |-> args]

Digits == "0123456789"
Digit(n) == CharAt(Digits, n + 1)

----------------------------------------------------------------------------
(* MCPMetaServer: registry, tool maps, dispatch                            *)

MetaTools ==
    <<"discover_servers", "analyze_usage", "get_cache_stats", "suggest_tools",
      "batch_execute", "optimize_routing", "configure_deduplication",
      "analyze_tool_similarity">>

\* Map.set on a Map kept as a sequence of records with a key field `name`
MapSet(m, val) ==
    IF \E i \in 1..Len(m) : m[i].name = val.name
    THEN [i \in 1..Len(m) |-> IF m[i].name = val.name THEN val ELSE m[i]]
    ELSE Append(m, val)

MapHas(m, name) == \E i \in 1..Len(m) : m[i].name = name
MapGet(m, name) == m[CHOOSE i \in 1..Len(m) : m[i].name = name]

\* this.servers, a sequence of [id, status, tools, session, metrics]
\* serverInfo.metrics (lastUsed, which nothing reads, is left out)
ServerMetrics(successRate, failureCount) ==
    [successRate |-> successRate, avgResponseTime |-> 0, totalCalls |-> 0,
     failureCount |-> failureCount]

ServerSet(srv, info) ==
    IF \E i \in 1..Len(srv) : srv[i].id = info.id
    THEN [i \in 1..Len(srv) |-> IF srv[i].id = info.id THEN info ELSE srv[i]]
    ELSE Append(srv, info)

ServerHas(srv, id) == \E i \in 1..Len(srv) : srv[i].id = id
ServerGet(srv, id) == srv[CHOOSE i \in 1..Len(srv) : srv[i].id = id]
IsConnected(srv, id) == ServerHas(srv, id) /\ ServerGet(srv, id).status = "connected"

RECURSIVE CollectTools(_, _)
\* allServerTools: the tools of the connected servers, in registry order
CollectTools(srv, i) ==
    IF i > Len(srv) THEN <<>>
    ELSE (IF srv[i].status = "connected"
          THEN [k \in 1..Len(srv[i].tools) |->
                   [serverId |-> srv[i].id, tool |-> srv[i].tools[k]]]
          ELSE <<>>) \o CollectTools(srv, i + 1)

RECURSIVE MapSetAll(_, _, _)
MapSetAll(m, vals, i) ==
    IF i > Len(vals) THEN m ELSE MapSetAll(MapSet(m, vals[i]), vals, i + 1)

Namespaced(e) ==
    [name |-> e.serverId \o ":" \o e.tool.name,
     description |-> e.tool.description,
     inputSchema |-> e.tool.inputSchema,
     serverId |-> e.serverId]

\* refreshToolsList: the new <<allTools, mergedTools>>
ToolMaps(cfg, allServerTools) ==
    <<MapSetAll(<<>>, [i \in 1..Len(allServerTools) |-> Namespaced(allServerTools[i])], 1),
      IF cfg.enabled THEN MapSetAll(<<>>, mergeTools(cfg, allServerTools), 1)
      ELSE <<>>>>

\* a rebuild left where the namespaced map is filled and the merged map is
\* still cleared
refreshToolsListUnmerged(srv, cfg) ==
    Then(CollectTools(srv, 1),
         LAMBDA allServerTools : <<ToolMaps(cfg, allServerTools)[1], <<>>>>)

refreshToolsList(srv, cfg) ==
    Then(CollectTools(srv, 1), LAMBDA allServerTools : ToolMaps(cfg, allServerTools))

\* parseToolIdentifier, for a name that contains ':'
SplitAt(toolName, colonIndex) ==
    [serverId |-> SubSeq(toolName, 1, colonIndex - 1),
     toolName |-> SubSeq(toolName, colonIndex + 1, Len(toolName))]

parseToolIdentifier(toolName) == SplitAt(toolName, IndexOf(toolName, ":"))

\* the candidates of a merged tool, by descending score; Array.prototype.sort
\* is stable, so equal scores keep the member order
\* a sort that puts the later of two members with equal scores first
SortRankLaterFirst(scores, i) ==
    Cardinality({j \in 1..Len(scores) : RatLT(scores[i], scores[j])})
    + Cardinality({j \in (i + 1)..Len(scores) : scores[j] = scores[i]}) + 1

\* the place of member i after sort((a, b) => b.score - a.score)
SortRank(scores, i) ==
    Cardinality({j \in 1..Len(scores) : RatLT(scores[i], scores[j])})
    + Cardinality({j \in 1..(i - 1) : scores[j] = scores[i]}) + 1

Candidate(ms, scores, i) ==
    [serverId |-> ms[i].serverId, toolName |-> ms[i].tool.name, score |-> scores[i]]

\* a sort by ascending score: sort((a, b) => a.score - b.score)
SortAscending(ms, scores) ==
    [p \in 1..Len(ms) |->
        Candidate(ms, scores,
                  CHOOSE i \in 1..Len(ms) : SortRank(scores, i) = Len(ms) + 1 - p)]

SortByScore(ms, scores) ==
    [p \in 1..Len(ms) |->
        Candidate(ms, scores, CHOOSE i \in 1..Len(ms) : SortRank(scores, i) = p)]

SortedServers(pm, merged, t) ==
    Then([i \in 1..Len(merged.originalTools) |->
             calculateServerScore(pm, merged.originalTools[i].serverId,
                                  merged.originalTools[i].tool.name, t)],
         LAMBDA scores : SortByScore(merged.originalTools, scores))

----------------------------------------------------------------------------
(* One delegateToolCall in progress (a task)                               *)
(* st: "await" while a remote request is pending, then "ok" or "err".      *)
(* The world w = [cache, pm, sent] is what the synchronous code between    *)
(* two awaits reads and writes.                                            *)

IdleTask ==
    [st |-> "idle", owner |-> <<0, 0>>, merged |-> FALSE, name |-> "",
     args |-> NoArgs, sorted |-> <<>>, k |-> 0, t0 |-> 0, sid |-> 0,
     lastError |-> <<>>, value |-> ""]

SessionOf(srv, id) == IF ServerHas(srv, id) THEN ServerGet(srv, id).session ELSE 0
StatusOf(srv, id) == IF ServerHas(srv, id) THEN ServerGet(srv, id).status ELSE "absent"

\* the record of a remote tools/call request sent for candidate c of the task
Sent(task, k, c, t) ==
    [owner |-> task.owner, outcome |-> "pending", answer |-> "", settled |-> 0,
     serverId |-> c.serverId, toolName |-> c.toolName, score |-> c.score,
     args |-> task.args, merged |-> task.merged,
     name |-> task.name, rank |-> k,
     session |-> SessionOf(servers, c.serverId),
     status |-> StatusOf(servers, c.serverId),
     link |-> IF SessionOf(servers, c.serverId) # 0
              THEN sessions[SessionOf(servers, c.serverId)] ELSE "none",
     t |-> t]

\* executeToolCall after this.cache.get(cacheKey) returned got
AfterCacheGet(w, task, k, t, got) ==
    IF got.hit
    THEN [w |-> [w EXCEPT !.cache = got.cache],
          task |-> [task EXCEPT !.st = "ok", !.k = k, !.value = got.data]]
    ELSE [w |-> [w EXCEPT !.cache = got.cache,
                          !.sent = Append(@, Sent(task, k, task.sorted[k], t))],
          task |-> [task EXCEPT !.st = "await", !.k = k, !.t0 = t,
                                !.sid = Len(w.sent) + 1]]

\* executeToolCall without the check of serverInfo.status
executeUnchecked(w, task, k, t) ==
    Then(CacheGet(w.cache,
                  CacheKey(task.sorted[k].serverId, task.sorted[k].toolName, task.args),
                  t),
         LAMBDA got : AfterCacheGet(w, task, k, t, got))

\* executeToolCall up to its await, for candidate k of the task
executeToolCall(w, task, k, t) ==
    IF ~IsConnected(servers, task.sorted[k].serverId)
    THEN [w |-> w,
          task |-> [task EXCEPT !.st = "err", !.k = k,
                      !.value = "Server " \o task.sorted[k].serverId
                                \o " is not connected"]]
    ELSE Then(CacheGet(w.cache,
                       CacheKey(task.sorted[k].serverId, task.sorted[k].toolName,
                                task.args),
                       t),
              LAMBDA got : AfterCacheGet(w, task, k, t, got))

RECURSIVE MergedLoop(_, _, _, _)
RECURSIVE MergedAttempt(_, _, _, _)

\* the try/catch around executeToolCall in the loop, e being its outcome
MergedAttempt(task, k, t, e) ==
    IF e.task.st = "err"
    THEN MergedLoop(e.w, [task EXCEPT !.lastError = <<e.task.value>>], k + 1, t)
    ELSE e

\* the for loop of handleMergedToolCall from candidate k on
MergedLoop(w, task, k, t) ==
    IF k > Len(task.sorted)
    THEN [w |-> w,
          task |-> [task EXCEPT !.st = "err", !.k = k,
                      !.value = "All servers failed for merged tool \"" \o task.name
                                \o "\". Last error: "
                                \o (IF task.lastError = <<>> THEN "undefined"
                                    ELSE task.lastError[1])]]
    ELSE IF ~IsConnected(servers, task.sorted[k].serverId)
    THEN MergedLoop(w, task, k + 1, t)
    ELSE Then(executeToolCall(w, task, k, t), LAMBDA e : MergedAttempt(task, k, t, e))

\* the only candidate of a namespaced call
OnlyCandidate(id) ==
    <<[serverId |-> id.serverId, toolName |-> id.toolName, score |-> <<0, 1>>]>>

\* delegateToolCall for a fresh task
Delegate(w, task, t) ==
    IF dedupConfig.enabled /\ MapHas(mergedTools, task.name)
    THEN Then([task EXCEPT !.merged = TRUE,
                           !.sorted = SortedServers(w.pm, MapGet(mergedTools, task.name),
                                                    t)],
              LAMBDA sorted : MergedLoop(w, sorted, 1, t))
    ELSE IF ~Includes(task.name, ":")
    THEN [w |-> w,
          task |-> [task EXCEPT !.st = "err",
                      !.value = "Invalid tool name format: " \o task.name
                                \o ". Expected format: serverId:toolName"]]
    ELSE Then([task EXCEPT !.sorted = OnlyCandidate(parseToolIdentifier(task.name))],
              LAMBDA only : executeToolCall(w, only, 1, t))

\* delegateToolCall up to its first await
delegateToolCall(w, owner, toolName, args, t) ==
    Delegate(w, [IdleTask EXCEPT !.owner = owner, !.name = toolName, !.args = args], t)

\* the rest of executeToolCall (and of the merged loop) once the remote
\* request of the task has settled
\* executeToolCall after its await, for candidate c: the world after
\* updateMetrics and, on success, cache.set
Settling(w, task, c, ok, data, t) ==
    [w EXCEPT
        !.sent[task.sid].outcome = IF ok THEN "ok" ELSE "fail",
        !.sent[task.sid].answer = data,
        !.sent[task.sid].settled = t,
        !.pm = updateMetrics(@, c.serverId, c.toolName, ok, t - task.t0, t),
        !.cache = IF ok
                  THEN Then(CacheKey(c.serverId, c.toolName, task.args),
                            LAMBDA cacheKey :
                                CacheSet(w.cache, cacheKey, data,
                                         determineToolType(c.toolName), t))
                  ELSE @]

\* a merged loop that keeps the first error instead of the last
ResumedKeepingFirst(w, task, ok, data, t) ==
    IF ok THEN [w |-> w, task |-> [task EXCEPT !.st = "ok", !.value = data]]
    ELSE IF task.merged
    THEN MergedLoop(w,
             [task EXCEPT !.lastError = IF @ = <<>> THEN <<data>> ELSE @],
             task.k + 1, t)
    ELSE [w |-> w, task |-> [task EXCEPT !.st = "err", !.value = data]]

\* what the caller of executeToolCall does with its result or its error
Resumed(w, task, ok, data, t) ==
    IF ok THEN [w |-> w, task |-> [task EXCEPT !.st = "ok", !.value = data]]
    ELSE IF task.merged
    THEN MergedLoop(w, [task EXCEPT !.lastError = <<data>>], task.k + 1, t)
    ELSE [w |-> w, task |-> [task EXCEPT !.st = "err", !.value = data]]

\* the provider's result, or the message of its error, for remote request sid
Answer(ok, text, sid) == (IF ok THEN text ELSE "E") \o Digit(sid)

ResumeTask(w, task, ok, text, t) ==
    Then(Settling(w, task, task.sorted[task.k], ok, Answer(ok, text, task.sid), t),
         LAMBDA settled : Resumed(settled, task, ok, Answer(ok, text, task.sid), t))


----------------------------------------------------------------------------
(* The CallToolRequestSchema handler                                       *)

World == [cache |-> cache, pm |-> performanceMetrics, sent |-> sent]

IdleReq ==
    [pc |-> "idle", name |-> "", args |-> NoArgs, startTime |-> 0,
     batch |-> FALSE, ops |-> <<>>, limit |-> 0, wave |-> 0, spin |-> 0,
     tasks |-> <<>>, results |-> <<>>,
     response |-> [isError |-> FALSE, text |-> "", results |-> <<>>]]

ErrorText(name, msg) == "Error executing tool " \o name \o ": " \o msg

Settled(task) == task.st \in {"ok", "err"}

\* a slice that takes one element more
JsSliceInclusive(s, a, b) ==
    LET norm(x) == IF x < 0 THEN Max(Len(s) + x, 0) ELSE Min(x, Len(s))
    IN  SubSeq(s, norm(a) + 1, norm(b + 1))

\* Array.prototype.slice(a, b)
JsSlice(s, a, b) ==
    LET norm(x) == IF x < 0 THEN Max(Len(s) + x, 0) ELSE Min(x, Len(s))
    IN  SubSeq(s, norm(a) + 1, norm(b))

RECURSIVE StartTasks(_, _, _, _, _, _)
\* batch.map(op => this.delegateToolCall(op.tool, op.arguments)): [w, tasks]
PrependTask(task, rest) == [w |-> rest.w, tasks |-> <<task>> \o rest.tasks]

RECURSIVE StartRest(_, _, _, _, _, _)
StartRest(d, r, first, batch, j, t) ==
    PrependTask(d.task, StartTasks(d.w, r, first, batch, j + 1, t))

StartTasks(w, r, first, batch, j, t) ==
    IF j > Len(batch) THEN [w |-> w, tasks |-> <<>>]
    ELSE Then(delegateToolCall(w, <<r, first + j>>, batch[j].tool,
                               batch[j].arguments, t),
              LAMBDA d : StartRest(d, r, first, batch, j, t))

\* the handler's return or catch for a delegated (non meta) call whose
\* delegateToolCall has settled
\* the handler's catch block: updateMetrics for a name with a colon
CatchMetrics(pm, id, responseTime, t) ==
    updateMetrics(pm, id.serverId, id.toolName, FALSE, responseTime, t)

FinishDirect(w, req, task, t) ==
    IF task.st = "ok"
    THEN [w |-> w,
          req |-> [req EXCEPT !.pc = "done", !.tasks = <<task>>,
                     !.response = [isError |-> FALSE, text |-> StringifyResult(task.value),
                                   results |-> <<>>]]]
    ELSE [w |-> IF Includes(req.name, ":")
                THEN [w EXCEPT !.pm = CatchMetrics(@, parseToolIdentifier(req.name),
                                                   t - req.startTime, t)]
                ELSE w,
          req |-> [req EXCEPT !.pc = "done", !.tasks = <<task>>,
                     !.response = [isError |-> TRUE,
                                   text |-> ErrorText(req.name, task.value),
                                   results |-> <<>>]]]

\* handleBatchExecute's return value
BatchResponse(req, results) ==
    [isError |-> FALSE, text |-> "batch",
     results |-> [i \in 1..Len(results) |->
                     [operation |-> IF i <= Len(req.ops) THEN <<req.ops[i]>> ELSE <<>>,
                      status |-> results[i].status,
                      value |-> results[i].value]]]

Outcome(task) ==
    [status |-> IF task.st = "ok" THEN "fulfilled" ELSE "rejected", value |-> task.value]

\* one pass of the for loop of executeWithLimit from index i; spin is the
\* parity of the number of passes made
WaveStarted(started, req, i, results) ==
    [w |-> started.w,
     req |-> [req EXCEPT !.pc = "running", !.wave = i, !.spin = 1 - @,
                         !.tasks = started.tasks, !.results = results]]

BatchLoop(w, r, req, i, results, t) ==
    IF i < Len(req.ops)
    THEN Then(StartTasks(w, r, i, JsSlice(req.ops, i, i + req.limit), 1, t),
              LAMBDA started : WaveStarted(started, req, i, results))
    ELSE [w |-> w,
          req |-> [req EXCEPT !.pc = "done", !.wave = i, !.tasks = <<>>,
                              !.results = results,
                              !.response = BatchResponse(req, results)]]

Thrown(req, msg) ==
    [req EXCEPT !.pc = "done",
                !.response = [isError |-> TRUE, text |-> ErrorText(req.name, msg),
                              results |-> <<>>]]

Returned(req, text) ==
    [req EXCEPT !.pc = "done",
                !.response = [isError |-> FALSE, text |-> text, results |-> <<>>]]

\* handleConfigureDeduplication: the new configuration
ConfiguredDedup(cfg, args) ==
    [cfg EXCEPT
        !.enabled = IF args.enabled # <<>> THEN args.enabled[1] ELSE @,
        !.similarityThreshold =
            IF args.similarityThreshold # <<>> THEN args.similarityThreshold[1] ELSE @,
        !.autoMerge = IF args.autoMerge # <<>> THEN args.autoMerge[1] ELSE @]

\* findToolByName
ToolKnown(all, toolName) ==
    IF Includes(toolName, ":") THEN MapHas(all, toolName)
    ELSE \E i \in 1..Len(all) : parseToolIdentifier(all[i].name).toolName = toolName

\* what a handler leaves: the world, the request, the deduplication
\* configuration and <<allTools, mergedTools>>
Handled(w, req, dedup, tools) == [w |-> w, req |-> req, dedup |-> dedup, tools |-> tools]

Kept(w, req) == Handled(w, req, dedupConfig, <<allTools, mergedTools>>)

\* handleConfigureDeduplication with the new configuration cfg
Reconfigured(w, req, args, cfg) ==
    Handled(w, Returned(req, "config"), cfg,
            IF args.enabled # <<>> THEN refreshToolsList(servers, cfg)
            ELSE <<allTools, mergedTools>>)

\* handleAnalyzeToolSimilarity
SimilarityAnswer(req, args) ==
    IF args.tool1 # "" /\ args.tool2 # ""
    THEN IF ToolKnown(allTools, args.tool1)
         THEN IF ToolKnown(allTools, args.tool2)
              THEN Returned(req, "similarity")
              ELSE Thrown(req, "Tool not found: " \o args.tool2)
         ELSE Thrown(req, "Tool not found: " \o args.tool1)
    ELSE Thrown(req,
            "Either provide tool1 and tool2 for comparison, or toolName with listSimilar=true")

\* the default case of the switch: d is delegateToolCall up to its first await
Delegated(d, req, t) ==
    IF Settled(d.task) THEN FinishDirect(d.w, req, d.task, t)
    ELSE [w |-> d.w, req |-> [req EXCEPT !.tasks = <<d.task>>]]

\* the switch of the handler for a started request req: [w, req]
Switch(w, r, req, name, args, t) ==
    CASE name = "discover_servers" -> [w |-> w, req |-> Returned(req, "servers")]
      [] name \in {"analyze_usage", "optimize_routing"} ->
            [w |-> [w EXCEPT !.cache = CacheGetStats(@)],
             req |-> Returned(req, "analysis")]
      [] name = "get_cache_stats" ->
            [w |-> [w EXCEPT !.cache = CacheGetStats(@)],
             req |-> Returned(req, "stats")]
      [] name = "suggest_tools" ->
            [w |-> w,
             req |-> IF args.task = <<>>
                        /\ \E i \in 1..Len(allTools) :
                              IsConnected(servers, allTools[i].serverId)
                     THEN Thrown(req, "Cannot read properties of undefined")
                     ELSE Returned(req, "suggestions")]
      [] name = "analyze_tool_similarity" -> [w |-> w, req |-> SimilarityAnswer(req, args)]
      [] name = "batch_execute" ->
            BatchLoop(w, r,
                [req EXCEPT !.batch = TRUE, !.ops = args.operations,
                            !.limit = IF args.concurrency = <<>> THEN 5
                                      ELSE args.concurrency[1]],
                0, <<>>, t)
      [] OTHER -> Then(delegateToolCall(w, <<r, 1>>, name, args, t),
                       LAMBDA d : Delegated(d, req, t))

KeptOf(x) == Kept(x.w, x.req)

\* the handler for a started request req
Handle(w, r, req, name, args, t) ==
    IF name \in {"analyze_usage", "optimize_routing", "suggest_tools", "batch_execute",
                 "configure_deduplication", "analyze_tool_similarity"}
       /\ ~args.defined
    THEN Kept(w, Thrown(req, "Cannot destructure property of undefined"))
    ELSE IF name = "configure_deduplication"
    THEN Reconfigured(w, req, args, ConfiguredDedup(dedupConfig, args))
    ELSE KeptOf(Switch(w, r, req, name, args, t))

\* The whole handler up to its first await (or to its end):
\* [w, req, dedup, tools] with tools = <<allTools, mergedTools>>
CallToolHandler(w, r, name, args, t) ==
    Handle(w, r,
           [IdleReq EXCEPT !.pc = "running", !.name = name, !.args = args,
                           !.startTime = t],
           name, args, t)


----------------------------------------------------------------------------
(* Initial state and actions                                               *)

\* the state after construction, for the config list discovery will return
\* and a cache of capacity size
\* no function is applied directly
NotApplied ==
    [fn |-> "none", args |-> <<>>, done |-> FALSE, result |-> <<>>, first |-> <<>>]

\* the function fn is about to be applied to args
Applying(fn, args) == [NotApplied EXCEPT !.fn = fn, !.args = args]

InitApplying(cfgs, size, app) ==
    /\ now = 0
    /\ ticks = 0
    /\ configs = cfgs
    /\ conn = [i \in 1..Len(cfgs) |-> "pending"]
    /\ startup = "init"
    /\ servers = <<>>
    /\ performanceMetrics = <<>>
    /\ cache = NewCache(size)
    /\ dedupConfig = DefaultDedupConfig
    /\ allTools = <<>>
    /\ mergedTools = <<>>
    /\ reqs = [r \in 1..MaxReqs |-> IdleReq]
    /\ sent = <<>>
    /\ closing = [phase |-> "no", i |-> 0, calls |-> 0, upstreamClosed |-> FALSE]
    /\ sessions = [i \in 1..Len(cfgs) |-> "none"]
    /\ upstream = [listed |-> FALSE, tools |-> <<>>, notifications |-> 0]
    /\ cacheLog = <<>>
    /\ applied = app

InitSized(cfgs, size) == InitApplying(cfgs, size, NotApplied)

InitWith(cfgs) == InitSized(cfgs, MaxSize)

\* time passes
Tick(step) ==
    /\ ticks < MaxTicks
    /\ now' = now + step
    /\ ticks' = ticks + 1
    /\ UNCHANGED <<configs, conn, startup, servers, performanceMetrics, cache,
                   dedupConfig, allTools, mergedTools, reqs, sent, closing, sessions,
                   upstream, cacheLog, applied>>

\* start(): the upstream transport is connected and discoverAndConnect begins
\* every connectToServer up to its first await
Start ==
    /\ startup = "init"
    /\ startup' = "connecting"
    /\ conn' = [i \in 1..Len(configs) |->
                   IF ServerHas(servers, configs[i].id) THEN "skipped" ELSE "connecting"]
    /\ sessions' = [i \in 1..Len(configs) |->
                       IF ServerHas(servers, configs[i].id) THEN "none" ELSE "open"]
    /\ UNCHANGED <<now, ticks, configs, servers, performanceMetrics, cache, dedupConfig,
                   allTools, mergedTools, reqs, sent, closing, upstream, cacheLog, applied>>

\* connectToServer: the handshake and the tool listing succeeded
ConnectOk(i) ==
    /\ conn[i] = "connecting"
    /\ sessions[i] = "open"
    /\ conn' = [conn EXCEPT ![i] = "ok"]
    /\ servers' = ServerSet(servers,
                      [id |-> configs[i].id, status |-> "connected",
                       tools |-> ToolsOf(configs[i].id), session |-> i,
                       metrics |-> ServerMetrics(<<1, 1>>, 0)])
    /\ performanceMetrics' =
           initializeServerMetrics(performanceMetrics, configs[i].id,
                                   ToolsOf(configs[i].id), now)
    /\ UNCHANGED <<now, ticks, configs, startup, cache, dedupConfig, allTools,
                   mergedTools, reqs, sent, closing, sessions, upstream, cacheLog, applied>>

\* a catch branch that only gives the attempt up
ConnectFailUnregistered(i) ==
    /\ conn[i] = "connecting"
    /\ configs[i].flaky \/ sessions[i] = "closed"
    /\ conn' = [conn EXCEPT ![i] = "failed"]
    /\ UNCHANGED <<now, ticks, configs, startup, servers, performanceMetrics, cache,
                   dedupConfig, allTools, mergedTools, reqs, sent, closing, sessions,
                   upstream, cacheLog, applied>>

\* connectToServer: the catch branch
ConnectFail(i) ==
    /\ conn[i] = "connecting"
    /\ configs[i].flaky \/ sessions[i] = "closed"
    /\ conn' = [conn EXCEPT ![i] = "failed"]
    /\ servers' = ServerSet(servers,
                      [id |-> configs[i].id, status |-> "disconnected",
                       tools |-> <<>>, session |-> 0,
                       metrics |-> ServerMetrics(<<0, 1>>, 1)])
    /\ UNCHANGED <<now, ticks, configs, startup, performanceMetrics, cache, dedupConfig,
                   allTools, mergedTools, reqs, sent, closing, sessions,
                   upstream, cacheLog, applied>>

\* discoverAndConnect after Promise.allSettled: refreshToolsList
FinishStartup ==
    /\ startup = "connecting"
    /\ \A i \in 1..Len(configs) : conn[i] \in {"ok", "failed", "skipped"}
    /\ startup' = "ready"
    /\ \E maps \in {refreshToolsList(servers, dedupConfig)} :
          /\ allTools' = maps[1]
          /\ mergedTools' = maps[2]
    /\ UNCHANGED <<now, ticks, configs, conn, servers, performanceMetrics, cache,
                   dedupConfig, reqs, sent, closing, sessions, upstream, cacheLog, applied>>

\* an upstream tools/call request: the handler runs up to its first await
Call(r, name, args) ==
    /\ startup # "init"
    /\ ~closing.upstreamClosed
    /\ reqs[r].pc = "idle"
    /\ \A q \in 1..(r - 1) : reqs[q].pc # "idle"
    /\ \E h \in {CallToolHandler(World, r, name, args, now)} :
          /\ reqs' = [reqs EXCEPT ![r] = h.req]
          /\ cache' = h.w.cache
          /\ performanceMetrics' = h.w.pm
          /\ sent' = h.w.sent
          /\ dedupConfig' = h.dedup
          /\ allTools' = h.tools[1]
          /\ mergedTools' = h.tools[2]
    /\ UNCHANGED <<now, ticks, configs, conn, startup, servers, closing, sessions,
                   upstream, cacheLog, applied>>

\* the handler of req after the await of its task j, res being the task resumed
Continue(req, j, res, t) ==
    IF ~req.batch /\ Settled(res.task) THEN FinishDirect(res.w, req, res.task, t)
    ELSE [w |-> res.w, req |-> [req EXCEPT !.tasks[j] = res.task]]

\* the remote request of task j of request r settles: with a result made of
\* text (ok) or with an error
Reply(r, j, ok, text) ==
    /\ reqs[r].pc = "running"
    /\ j \in 1..Len(reqs[r].tasks)
    /\ reqs[r].tasks[j].st = "await"
    /\ ok => /\ sent[reqs[r].tasks[j].sid].session # 0
             /\ sessions[sent[reqs[r].tasks[j].sid].session] = "open"
    /\ \E h \in {Then(ResumeTask(World, reqs[r].tasks[j], ok, text, now),
                       LAMBDA res : Continue(reqs[r], j, res, now))} :
          /\ reqs' = [reqs EXCEPT ![r] = h.req]
          /\ cache' = h.w.cache
          /\ performanceMetrics' = h.w.pm
          /\ sent' = h.w.sent
    /\ UNCHANGED <<now, ticks, configs, conn, startup, servers, dedupConfig, allTools,
                   mergedTools, closing, sessions, upstream, cacheLog, applied>>

\* the remote request settles in one of the ways a provider can settle it
Settle(r, j) ==
    \/ \E text \in ResultTexts : Reply(r, j, TRUE, text)
    \/ Reply(r, j, FALSE, "")

\* i += limit; an index below -MaxBackward is followed as -MaxBackward: with
\* i < 0 and limit < 0 every ops.slice(i, i + limit) is empty, whatever i is
NextIndex(req) ==
    IF req.wave + req.limit < -MaxBackward THEN -MaxBackward ELSE req.wave + req.limit

\* handleBatchExecute: Promise.allSettled of the current wave resolves and
\* the for loop of executeWithLimit goes on
BatchNextWave(r) ==
    /\ reqs[r].pc = "running"
    /\ reqs[r].batch
    /\ \A j \in 1..Len(reqs[r].tasks) : Settled(reqs[r].tasks[j])
    /\ \E b \in {BatchLoop(World, r, reqs[r], NextIndex(reqs[r]),
                             reqs[r].results
                                 \o [j \in 1..Len(reqs[r].tasks) |->
                                        Outcome(reqs[r].tasks[j])],
                             now)} :
          /\ reqs' = [reqs EXCEPT ![r] = b.req]
          /\ cache' = b.w.cache
          /\ performanceMetrics' = b.w.pm
          /\ sent' = b.w.sent
    /\ UNCHANGED <<now, ticks, configs, conn, startup, servers, dedupConfig, allTools,
                   mergedTools, closing, sessions, upstream, cacheLog, applied>>

\* shutdown() is called
ShutdownBegin ==
    /\ closing.phase = "no"
    /\ closing' = [closing EXCEPT !.phase = "closing", !.i = 1, !.calls = @ + 1]
    /\ UNCHANGED <<now, ticks, configs, conn, startup, servers, performanceMetrics,
                   cache, dedupConfig, allTools, mergedTools, reqs, sent, sessions,
                   upstream, cacheLog, applied>>

\* shutdown() is called again after it has returned
ShutdownAgain ==
    /\ closing.phase = "done"
    /\ closing.calls < MaxShutdowns
    /\ closing' = [closing EXCEPT !.phase = "closing", !.i = 1, !.calls = @ + 1]
    /\ UNCHANGED <<now, ticks, configs, conn, startup, servers, performanceMetrics,
                   cache, dedupConfig, allTools, mergedTools, reqs, sent, sessions,
                   upstream, cacheLog, applied>>

\* shutdown(): one iteration of the loop over this.servers
ShutdownClose ==
    /\ closing.phase = "closing"
    /\ closing.i <= Len(servers)
    /\ sessions' = IF servers[closing.i].session # 0
                   THEN [sessions EXCEPT ![servers[closing.i].session] = "closed"]
                   ELSE sessions
    /\ closing' = [closing EXCEPT !.i = @ + 1]
    /\ UNCHANGED <<now, ticks, configs, conn, startup, servers, performanceMetrics,
                   cache, dedupConfig, allTools, mergedTools, reqs, sent,
                   upstream, cacheLog, applied>>

\* shutdown(): this.servers.clear() and this.server.close()
ShutdownFinish ==
    /\ closing.phase = "closing"
    /\ closing.i > Len(servers)
    /\ servers' = <<>>
    /\ closing' = [closing EXCEPT !.phase = "done", !.upstreamClosed = TRUE]
    /\ UNCHANGED <<now, ticks, configs, conn, startup, performanceMetrics, cache,
                   dedupConfig, allTools, mergedTools, reqs, sent, sessions,
                   upstream, cacheLog, applied>>

\* discovery, the connections and the end of start()
Startup ==
    \/ Start
    \/ \E i \in 1..Len(configs) : ConnectOk(i)
    \/ \E i \in 1..Len(configs) : ConnectFail(i)
    \/ FinishStartup

\* any pending remote request settles
Replies == \E r \in 1..MaxReqs : \E j \in 1..Len(reqs[r].tasks) : Settle(r, j)

----------------------------------------------------------------------------
(* Dispatch: two providers, delegated calls, time                          *)

DispatchRequests ==
    {Request(name, args) : name \in {"read", "A:read", "Z:read"}, args \in ToolArgs}

Init == InitWith(TwoConfigs)

Next ==
    \/ \E step \in TickSteps : Tick(step)
    \/ Startup
    \/ \E r \in 1..MaxReqs, q \in DispatchRequests : Call(r, q.name, q.args)
    \/ Replies

Spec == Init /\ [][Next]_vars

----------------------------------------------------------------------------
(* The tools/list handler, and deduplication switched on and off           *)

\* what the listing shows of a tool
Exposed(tool) ==
    [name |-> tool.name, description |-> tool.description,
     inputSchema |-> tool.inputSchema]

\* the entries of the meta-tools (their descriptions and schemas left out)
MetaToolEntries ==
    [i \in 1..Len(MetaTools) |->
        [name |-> MetaTools[i], description |-> "", inputSchema |-> Schema(<<>>, <<>>)]]

\* a listing that shows the namespaced tools after the merged ones
ToolsToExposeBoth(cfg, all, merged) ==
    [i \in 1..Len(merged) |-> Exposed(merged[i])]
        \o [i \in 1..Len(all) |-> Exposed(all[i])]

ToolsToExpose(cfg, all, merged) ==
    IF cfg.enabled /\ Len(merged) > 0
    THEN [i \in 1..Len(merged) |-> Exposed(merged[i])]
    ELSE [i \in 1..Len(all) |-> Exposed(all[i])]

ListToolsHandler(cfg, all, merged) == MetaToolEntries \o ToolsToExpose(cfg, all, merged)

\* the upstream client asks for the tools
ListTools ==
    /\ startup # "init"
    /\ ~closing.upstreamClosed
    /\ upstream' = [upstream EXCEPT
                        !.listed = TRUE,
                        !.tools = ListToolsHandler(dedupConfig, allTools, mergedTools)]
    /\ UNCHANGED <<now, ticks, configs, conn, startup, servers, performanceMetrics,
                   cache, dedupConfig, allTools, mergedTools, reqs, sent, closing,
                   sessions, cacheLog, applied>>

ListRequests == {Request("configure_deduplication", args) : args \in DedupArgs}

NextList ==
    \/ Startup
    \/ \E r \in 1..MaxReqs, q \in ListRequests : Call(r, q.name, q.args)
    \/ ListTools

SpecList == Init /\ [][NextList]_vars

----------------------------------------------------------------------------
(* Five providers of one merged tool                                       *)

InitWide == InitWith(FiveConfigs)

NextWide ==
    \/ Start
    \/ \E i \in 1..Len(configs) : ConnectOk(i)
    \/ FinishStartup
    \/ \E args \in ToolArgs : startup = "ready" /\ Call(1, "read", args)
    \/ Replies

SpecWide == InitWide /\ [][NextWide]_vars

----------------------------------------------------------------------------
(* Shutdown while calls are in flight                                      *)

ShutdownRequests ==
    {Request(name, args) : name \in {"read", "A:read"}, args \in ToolArgs}

NextShutdown ==
    \/ Startup
    \/ \E r \in 1..MaxReqs, q \in ShutdownRequests : Call(r, q.name, q.args)
    \/ Replies
    \/ ShutdownBegin
    \/ ShutdownClose
    \/ ShutdownFinish

SpecShutdown == Init /\ [][NextShutdown]_vars

----------------------------------------------------------------------------
(* A config with a command that is not an interpreter of the whitelist     *)

InitUnsafe == InitWith(UnsafeConfigs)

SpecUnsafe == InitUnsafe /\ [][NextShutdown]_vars

----------------------------------------------------------------------------
(* The transport of a connected provider fails                             *)

\* the child of config i exits or its pipe breaks; no handler is registered
\* on the client or its transport, so nothing of the server's state changes
TransportFails(i) ==
    /\ conn[i] = "ok"
    /\ sessions[i] = "open"
    /\ sessions' = [sessions EXCEPT ![i] = "lost"]
    /\ UNCHANGED <<now, ticks, configs, conn, startup, servers, performanceMetrics,
                   cache, dedupConfig, allTools, mergedTools, reqs, sent, closing,
                   upstream, cacheLog, applied>>

NextLost ==
    \/ Startup
    \/ \E r \in 1..MaxReqs, q \in ShutdownRequests : Call(r, q.name, q.args)
    \/ Replies
    \/ \E i \in 1..Len(configs) : TransportFails(i)

SpecLost == Init /\ [][NextLost]_vars

----------------------------------------------------------------------------
(* shutdown() called after the startup, more than once                     *)

\* shutdown() once start() has returned, and again once it has returned
NextTwice ==
    \/ Startup
    \/ \E r \in 1..MaxReqs, q \in ShutdownRequests : Call(r, q.name, q.args)
    \/ Replies
    \/ startup = "ready" /\ ShutdownBegin
    \/ ShutdownClose
    \/ ShutdownFinish
    \/ ShutdownAgain

SpecTwice == Init /\ [][NextTwice]_vars

----------------------------------------------------------------------------
(* Two configs with one id, calls during startup                           *)

InitDup == InitWith(DuplicateConfigs)

NextDup ==
    \/ \E step \in TickSteps : Tick(step)
    \/ Startup
    \/ \E r \in 1..MaxReqs, q \in ShutdownRequests : Call(r, q.name, q.args)
    \/ Replies

SpecDup == InitDup /\ [][NextDup]_vars

\* the same two configs, and shutdown
SpecDupTwice == InitDup /\ [][NextTwice]_vars

----------------------------------------------------------------------------
(* Every tool name and argument shape, with the scheduling the runtime     *)
(* guarantees: a pending remote request settles (the client's request      *)
(* timeout) and a resolved Promise.allSettled is resumed                   *)

MetaRequests ==
    UNION {{Request(name, args) : args \in ArgsFor(name)} :
              name \in Range(MetaTools) \cup DelegatedNames}

Waves == \E r \in 1..MaxReqs : BatchNextWave(r)

NextMeta ==
    \/ Startup
    \/ \E q \in MetaRequests : startup = "ready" /\ Call(1, q.name, q.args)
    \/ Replies
    \/ Waves

SpecMeta == Init /\ [][NextMeta]_vars /\ WF_vars(Replies) /\ WF_vars(Waves)

----------------------------------------------------------------------------
(* batch_execute: four operations on different arguments                   *)

WaveOps ==
    <<[tool |-> "A:read", arguments |-> Args(<<<<"path", "1">>>>)],
      [tool |-> "nope", arguments |-> Args(<<<<"path", "2">>>>)],
      [tool |-> "B:read", arguments |-> Args(<<<<"path", "3">>>>)],
      [tool |-> "read", arguments |-> Args(<<<<"path", "4">>>>)]>>

WaveArgs ==
    {[BaseArgs EXCEPT !.operations = WaveOps, !.concurrency = c] :
        c \in {<<>>, <<1>>, <<2>>, <<3>>}}

NextBatch ==
    \/ Startup
    \/ \E args \in WaveArgs : startup = "ready" /\ Call(1, "batch_execute", args)
    \/ Replies
    \/ Waves

SpecBatch == Init /\ [][NextBatch]_vars

----------------------------------------------------------------------------
(* batch_execute with every kind of concurrency value, under the           *)
(* scheduling the runtime guarantees                                       *)

LimitArgs ==
    {[BaseArgs EXCEPT !.operations = WaveOps, !.concurrency = c] :
        c \in {<<>>, <<1>>, <<0>>, <<-1>>}}

NextLimits ==
    \/ Startup
    \/ \E args \in LimitArgs : startup = "ready" /\ Call(1, "batch_execute", args)
    \/ Replies
    \/ Waves

SpecLimits == Init /\ [][NextLimits]_vars /\ WF_vars(Replies) /\ WF_vars(Waves)

----------------------------------------------------------------------------
(* mergeTools applied directly to lists of tools                           *)

ModeSchema == Schema(<<[name |-> "mode", type |-> "string"]>>, <<"mode">>)
BothSchema ==
    Schema(<<[name |-> "path", type |-> "string"], [name |-> "mode", type |-> "string"]>>,
           <<"path", "mode">>)

\* the tools a provider may list: one name with no, one or another
\* description and no, one or another schema, and a close name
ListedTools ==
    {[name |-> "read", description |-> d, inputSchema |-> sc] :
        d \in {"", "Read a file", "Read a file."},
        sc \in {ReadSchema, ModeSchema, BothSchema, NoSchema}}
    \cup {[name |-> "reads", description |-> "Read a file", inputSchema |-> ReadSchema]}

DedupPool == {[serverId |-> id, tool |-> t] : id \in {"A", "B"}, t \in ListedTools}

SmallLists == UNION {[1..n -> DedupPool] : n \in 1..MaxTools}

\* a list made longer than the limit of the small-set mode by repeating its
\* last tool
Padded(list) ==
    [i \in 1..(LargeSetLimit + 1) |-> IF i <= Len(list) THEN list[i] ELSE list[Len(list)]]

\* the tools the large lists start with: two names that are far apart
LargePool ==
    {[serverId |-> id,
      tool |-> [name |-> n, description |-> d, inputSchema |-> ReadSchema]] :
        id \in {"A", "B"}, n \in {"read", "write"},
        d \in {"Read a file", "Read a file."}}

LargeLists ==
    {Padded(list) : list \in UNION {[1..n -> LargePool] : n \in 1..(MaxTools - 1)}}

\* three tools that differ in their names only: "read" is close to both
\* other names, which are far from each other
ChainTools ==
    {[serverId |-> "A",
      tool |-> [name |-> n, description |-> "Read a file", inputSchema |-> ReadSchema]] :
        n \in {"read", "reads", "search"}}

\* the large lists that hold the three tools once, in any order
ChainLists ==
    {Padded(list) : list \in {l \in [1..MaxTools -> ChainTools] :
                                  \A i, j \in 1..MaxTools : l[i] = l[j] => i = j}}

\* a merged tool taken as the single tool of its primary provider
Representative(m) ==
    [serverId |-> m.serverId,
     tool |-> [name |-> m.name, description |-> m.description,
               inputSchema |-> m.inputSchema]]

InitDedup ==
    \E list \in SmallLists \cup LargeLists \cup ChainLists :
        InitApplying(TwoConfigs, MaxSize, Applying("mergeTools", list))

\* mergeTools(tools) is called
ApplyMergeTools ==
    /\ applied.fn = "mergeTools"
    /\ ~applied.done
    /\ applied' = [applied EXCEPT !.done = TRUE,
                                  !.result = mergeTools(dedupConfig, applied.args)]
    /\ UNCHANGED <<now, ticks, configs, conn, startup, servers, performanceMetrics,
                   cache, dedupConfig, allTools, mergedTools, reqs, sent, closing,
                   sessions, upstream, cacheLog>>

\* the merged tools of the first run are given to mergeTools as single tools
MergeAgain ==
    /\ applied.fn = "mergeTools"
    /\ applied.done
    /\ applied.first = <<>>
    /\ applied' = [applied EXCEPT
                      !.done = FALSE,
                      !.first = <<applied.result>>,
                      !.args = [i \in 1..Len(applied.result) |->
                                   Representative(applied.result[i])]]
    /\ UNCHANGED <<now, ticks, configs, conn, startup, servers, performanceMetrics,
                   cache, dedupConfig, allTools, mergedTools, reqs, sent, closing,
                   sessions, upstream, cacheLog>>

NextDedup == ApplyMergeTools \/ MergeAgain

SpecDedup == InitDedup /\ [][NextDedup]_vars

----------------------------------------------------------------------------
(* calculateStringSimilarity applied directly to two strings, then to the  *)
(* same strings in the other order                                         *)

Letters == {"a", "b"}

\* strings with upper-case letters
MixedCase == {"A", "Ab", "AB", "aBab"}

RECURSIVE Words(_)
\* the strings of at most n letters
Words(n) ==
    IF n = 0 THEN {""}
    ELSE Words(n - 1) \cup {w \o c : w \in Words(n - 1), c \in Letters}

InitSimilarity ==
    \E str1, str2 \in Words(MaxLen) \cup MixedCase :
        InitApplying(TwoConfigs, MaxSize, Applying("similarity", <<str1, str2>>))

\* calculateStringSimilarity(str1, str2) is called
ApplySimilarity ==
    /\ applied.fn = "similarity"
    /\ ~applied.done
    /\ applied' = [applied EXCEPT
                      !.done = TRUE,
                      !.result = calculateStringSimilarity(applied.args[1],
                                                           applied.args[2])]
    /\ UNCHANGED <<now, ticks, configs, conn, startup, servers, performanceMetrics,
                   cache, dedupConfig, allTools, mergedTools, reqs, sent, closing,
                   sessions, upstream, cacheLog>>

\* the two strings are given in the other order
SwapStrings ==
    /\ applied.fn = "similarity"
    /\ applied.done
    /\ applied.first = <<>>
    /\ applied' = [applied EXCEPT
                      !.done = FALSE,
                      !.first = <<applied.result>>,
                      !.args = <<applied.args[2], applied.args[1]>>]
    /\ UNCHANGED <<now, ticks, configs, conn, startup, servers, performanceMetrics,
                   cache, dedupConfig, allTools, mergedTools, reqs, sent, closing,
                   sessions, upstream, cacheLog>>

NextSimilarity == ApplySimilarity \/ SwapStrings

SpecSimilarity == InitSimilarity /\ [][NextSimilarity]_vars

----------------------------------------------------------------------------
(* A delegated call, then a meta-tool                                      *)

MixedRequests ==
    UNION {{Request(name, args) : args \in ArgsFor(name)} : name \in Range(MetaTools)}

NextMixed ==
    \/ Startup
    \/ \E args \in ToolArgs : startup = "ready" /\ Call(1, "A:read", args)
    \/ \E q \in MixedRequests : reqs[1].pc = "done" /\ Call(2, q.name, q.args)
    \/ Replies
    \/ Waves

SpecMixed == Init /\ [][NextMixed]_vars

----------------------------------------------------------------------------
(* One object written with its keys in either order                        *)

PermutedArgs ==
    {Args(<<<<"a", "1">>, <<"b", "2">>>>), Args(<<<<"b", "2">>, <<"a", "1">>>>)}

NextOrder ==
    \/ Startup
    \/ \E r \in 1..MaxReqs, args \in PermutedArgs : Call(r, "A:read", args)
    \/ Replies

SpecOrder == Init /\ [][NextOrder]_vars

----------------------------------------------------------------------------
(* The CachingSystem on its own: get and set in any order, at any          *)
(* timestamps, on a cache of a small capacity                              *)

SmallSize == 2
MaxOps == SmallSize + 1

\* one key more than the cache can hold
CacheKeys ==
    {CacheKey("A", "read", Args(<<<<"path", Digit(n)>>>>)) : n \in 1..(SmallSize + 1)}

\* a millisecond, and the time an entry of a filesystem tool lives
ExpirySteps == {1, InitialToolTypeTTL["filesystem"][1]}

LogEntry(op, key, data, t, hit, before, after) ==
    [op |-> op, key |-> key, data |-> data, t |-> t, hit |-> hit,
     before |-> before, after |-> after]

\* cache.get(key)
CacheOpGet(key) ==
    /\ Len(cacheLog) < MaxOps
    /\ \E g \in {CacheGet(cache, key, now)} :
          /\ cache' = g.cache
          /\ cacheLog' = Append(cacheLog,
                                LogEntry("get", key, g.data, now, g.hit, cache, g.cache))
    /\ UNCHANGED <<now, ticks, configs, conn, startup, servers, performanceMetrics,
                   dedupConfig, allTools, mergedTools, reqs, sent, closing, sessions,
                   upstream, applied>>

\* cache.set(key, data, undefined, toolType)
CacheOpSet(key, data, toolType) ==
    /\ Len(cacheLog) < MaxOps
    /\ \E c \in {CacheSet(cache, key, data, toolType, now)} :
          /\ cache' = c
          /\ cacheLog' = Append(cacheLog,
                                LogEntry("set", key, data, now, FALSE, cache, c))
    /\ UNCHANGED <<now, ticks, configs, conn, startup, servers, performanceMetrics,
                   dedupConfig, allTools, mergedTools, reqs, sent, closing, sessions,
                   upstream, applied>>

InitCache == InitSized(TwoConfigs, SmallSize)

NextCache ==
    \/ \E step \in ExpirySteps : Tick(step)
    \/ \E key \in CacheKeys : CacheOpGet(key)
    \/ \E key \in CacheKeys : CacheOpSet(key, "V", "filesystem")

SpecCache == InitCache /\ [][NextCache]_vars

----------------------------------------------------------------------------
(* The CachingSystem with entries of several tool types: get, set and      *)
(* getStats in any order                                                   *)

\* a type of each kind: at the floor, in the middle, at the cap, and one
\* that toolTypeTTL does not list
StatTypes == {"filesystem", "network", "static", "custom"}

StatKeys ==
    {CacheKey("A", "read", Args(<<<<"path", Digit(n)>>>>)) : n \in 1..SmallSize}

\* cache.set(key, data, undefined, toolType) while the log has room
StatOpSet(key, data, toolType) ==
    /\ Len(cacheLog) < MaxStatOps
    /\ \E c \in {CacheSet(cache, key, data, toolType, now)} :
          /\ cache' = c
          /\ cacheLog' = Append(cacheLog,
                                LogEntry("set", key, data, now, FALSE, cache, c))
    /\ UNCHANGED <<now, ticks, configs, conn, startup, servers, performanceMetrics,
                   dedupConfig, allTools, mergedTools, reqs, sent, closing, sessions,
                   upstream, applied>>

\* cache.get(key) while the log has room
StatOpGet(key) ==
    /\ Len(cacheLog) < MaxStatOps
    /\ \E g \in {CacheGet(cache, key, now)} :
          /\ cache' = g.cache
          /\ cacheLog' = Append(cacheLog,
                                LogEntry("get", key, g.data, now, g.hit, cache, g.cache))
    /\ UNCHANGED <<now, ticks, configs, conn, startup, servers, performanceMetrics,
                   dedupConfig, allTools, mergedTools, reqs, sent, closing, sessions,
                   upstream, applied>>

\* cache.getStats()
StatOpStats ==
    /\ Len(cacheLog) < MaxStatOps
    /\ \E c \in {CacheGetStats(cache)} :
          /\ cache' = c
          /\ cacheLog' = Append(cacheLog,
                                LogEntry("stats", "", "", now, FALSE, cache, c))
    /\ UNCHANGED <<now, ticks, configs, conn, startup, servers, performanceMetrics,
                   dedupConfig, allTools, mergedTools, reqs, sent, closing, sessions,
                   upstream, applied>>

NextStats ==
    \/ Tick(InitialToolTypeTTL["filesystem"][1])
    \/ \E key \in StatKeys : StatOpGet(key)
    \/ \E key \in StatKeys, toolType \in StatTypes : StatOpSet(key, "V", toolType)
    \/ StatOpStats

SpecStats == InitCache /\ [][NextStats]_vars

----------------------------------------------------------------------------
(* Merged calls while configure_deduplication rebuilds the maps and the    *)
(* client lists the tools                                                  *)

RebuildRequests ==
    {Request("read", args) : args \in ToolArgs}
        \cup {Request("configure_deduplication", args) : args \in DedupArgs}

NextRebuild ==
    \/ Tick(SlowResponseMs)
    \/ Startup
    \/ \E r \in 1..MaxReqs, q \in RebuildRequests : Call(r, q.name, q.args)
    \/ ListTools
    \/ Replies

SpecRebuild == Init /\ [][NextRebuild]_vars

----------------------------------------------------------------------------
(* Two providers with different tools of one name, listed                  *)

InitClash == InitWith(ClashConfigs)

SpecClash == InitClash /\ [][NextList]_vars

----------------------------------------------------------------------------
(* Namespaced calls to a provider whose id contains a colon                *)

ColonRequests == {Request(name, args) : name \in {"A:read", "A:x:read"}, args \in ToolArgs}

InitColon == InitWith(ColonConfigs)

NextColon ==
    \/ Startup
    \/ \E r \in 1..MaxReqs, q \in ColonRequests : Call(r, q.name, q.args)
    \/ Replies

SpecColon == InitColon /\ [][NextColon]_vars

----------------------------------------------------------------------------
(* Shutdown while start() is still connecting and a batch is in flight     *)

\* one operation for each provider, run one at a time
LateOps ==
    <<[tool |-> "A:read", arguments |-> Args(<<<<"path", "1">>>>)],
      [tool |-> "B:read", arguments |-> Args(<<<<"path", "2">>>>)]>>

LateArgs == [BaseArgs EXCEPT !.operations = LateOps, !.concurrency = <<1>>]

NextLate ==
    \/ Startup
    \/ \E q \in ShutdownRequests : Call(1, q.name, q.args)
    \/ Call(1, "batch_execute", LateArgs)
    \/ Replies
    \/ Waves
    \/ ShutdownBegin
    \/ ShutdownClose
    \/ ShutdownFinish

SpecLate == Init /\ [][NextLate]_vars

----------------------------------------------------------------------------
(* Properties                                                              *)

\* the remote requests sent for one delegateToolCall
Attempts(o) == {i \in 1..Len(sent) : sent[i].owner = o}

\* the metrics entry of the provider and tool of remote request i
EntryOf(pm, i) == pm[sent[i].serverId][sent[i].toolName]

\* remote request i settles in this step
Settles(i) == sent[i].outcome = "pending" /\ sent'[i].outcome # "pending"

\* request slot r receives its call in this step
Arrives(r) == reqs[r].pc = "idle" /\ reqs'[r].pc # "idle"

OkResponse(text) == [isError |-> FALSE, text |-> text, results |-> <<>>]

\* C1: the attempts of one merged invocation are made one at a time, in
\* descending order of the scores of the candidates: a later attempt exists
\* only when every earlier one has failed, and a successful attempt is the
\* last one, its result being what the caller receives.
SequentialDescendingAttempts ==
    /\ \A i, j \in 1..Len(sent) :
          (sent[i].merged /\ sent[i].owner = sent[j].owner /\ i < j) =>
              /\ sent[i].outcome = "fail"
              /\ sent[i].rank < sent[j].rank
              /\ RatLE(sent[j].score, sent[i].score)
    /\ \A i \in 1..Len(sent) :
          (sent[i].merged /\ sent[i].outcome = "ok") =>
              /\ \A j \in Attempts(sent[i].owner) : j <= i
              /\ reqs[sent[i].owner[1]].pc = "done"
              /\ reqs[sent[i].owner[1]].response
                     = OkResponse(StringifyResult(sent[i].answer))

\* a merged invocation whose better-scored candidate failed and whose next
\* candidate succeeded
FailedThenSucceeded ==
    \E i, j \in 1..Len(sent) :
        /\ i < j
        /\ sent[i].merged
        /\ sent[i].owner = sent[j].owner
        /\ sent[j].outcome = "ok"
        /\ RatLT(sent[j].score, sent[i].score)

\* the step in which the fallback B of a merged invocation succeeds after the
\* first-ranked A has failed
FailoverSucceeds(i) ==
    /\ Settles(i)
    /\ sent'[i].outcome = "ok"
    /\ sent[i].merged
    /\ \E h \in Attempts(sent[i].owner) : h < i

\* the step in which the first-ranked A of a merged invocation fails
PrimaryFails(h) ==
    /\ Settles(h)
    /\ sent'[h].outcome = "fail"
    /\ sent[h].merged
    /\ sent[h].rank = 1

KeyOf(i) == CacheKey(sent[i].serverId, sent[i].toolName, sent[i].args)

Stored(c, key) == KeyIndex(c.entries, key) # 0

\* C2: failover. When A's remote call fails exactly one failure is recorded
\* for (A, tool); when B's then succeeds exactly one success is recorded for
\* (B, tool), the result is in the cache under B's key, nothing is put under
\* A's key, and the caller receives B's result.
FailoverScenario ==
    [][/\ \A h \in 1..Len(sent) :
             PrimaryFails(h) =>
                 /\ EntryOf(performanceMetrics', h).totalCalls
                        = EntryOf(performanceMetrics, h).totalCalls + 1
                 /\ EntryOf(performanceMetrics', h).failureCount
                        = EntryOf(performanceMetrics, h).failureCount + 1
                 /\ Stored(cache', KeyOf(h)) => Stored(cache, KeyOf(h))
       /\ \A i \in 1..Len(sent) :
             FailoverSucceeds(i) =>
                 /\ EntryOf(performanceMetrics', i).totalCalls
                        = EntryOf(performanceMetrics, i).totalCalls + 1
                 /\ EntryOf(performanceMetrics', i).failureCount
                        = EntryOf(performanceMetrics, i).failureCount
                 /\ \E e \in Range(cache'.entries) :
                        e.key = KeyOf(i) /\ e.data = sent'[i].answer
                 /\ \A h \in Attempts(sent[i].owner) :
                        (h < i /\ Stored(cache', KeyOf(h))) => Stored(cache, KeyOf(h))
                 /\ reqs'[sent[i].owner[1]].response
                        = OkResponse(StringifyResult(sent'[i].answer))
      ]_vars

\* the scoring function as section 4.3 states it
StatedRecency(sinceUsed) ==
    IF sinceUsed < HourMs THEN <<1, 1>>
    ELSE IF sinceUsed < 24 * HourMs THEN <<4, 5>>
    ELSE IF sinceUsed < 168 * HourMs THEN <<3, 5>>
    ELSE <<2, 5>>

StatedScore(m, t) ==
    IF m.totalCalls = 0 THEN <<1, 2>>
    ELSE RatAdd(RatAdd(RatMul(<<1, 2>>, m.successRate),
                       RatMul(<<3, 10>>,
                              RatMax(<<0, 1>>,
                                     RatSub(<<1, 1>>,
                                            RatDiv(m.avgResponseTime, <<10000, 1>>))))),
                RatMul(<<1, 5>>, StatedRecency(t - m.lastUsed)))

\* member i of ms comes before member j: a higher score, or the same score
\* and an earlier place in the member list
Precedes(scores, i, j) ==
    \/ RatLT(scores[j], scores[i])
    \/ scores[j] = scores[i] /\ i < j

\* the connected member of ms that comes before every other connected member
BestMember(ms, scores) ==
    CHOOSE i \in 1..Len(ms) :
        /\ IsConnected(servers, ms[i].serverId)
        /\ \A j \in 1..Len(ms) :
              (j # i /\ IsConnected(servers, ms[j].serverId)) => Precedes(scores, i, j)

StatedScores(ms) ==
    [i \in 1..Len(ms) |->
        StatedScore(performanceMetrics[ms[i].serverId][ms[i].tool.name], now)]

\* the first remote request of the merged call arriving in this step goes to
\* the best member of ms
FirstGoesToBest(rec, ms) ==
    /\ rec.serverId = ms[BestMember(ms, StatedScores(ms))].serverId
    /\ rec.toolName = ms[BestMember(ms, StatedScores(ms))].tool.name

\* scenario S1: A at 8 successes of 10 and 100 ms, B at 10 of 10 and 200 ms
S1Entry(fails, avg) ==
    [successRate |-> Rat(10 - fails, 10), avgResponseTime |-> <<avg, 1>>,
     lastUsed |-> 0, totalCalls |-> 10, failureCount |-> fails]

S1Sorted ==
    SortedServers([A |-> [read |-> S1Entry(2, 100)], B |-> [read |-> S1Entry(0, 200)]],
                  [originalTools |-> <<[serverId |-> "A", tool |-> ReadTool],
                                       [serverId |-> "B", tool |-> ReadTool]>>],
                  0)

S1PicksB ==
    /\ S1Sorted[1].serverId = "B"
    /\ S1Sorted[1].score = <<497, 500>>
    /\ S1Sorted[2].score = <<897, 1000>>

\* C3: the first provider a merged invocation contacts is the connected
\* member with the highest score (0.5 without calls, else 0.5*successRate +
\* 0.3*responseScore + 0.2*recencyScore on the metrics at the time of the
\* call), the earlier member on equal scores; in scenario S1 that is B.
FirstAttemptIsBest ==
    [][/\ S1PicksB
       /\ \A r \in 1..MaxReqs :
             (/\ Arrives(r)
              /\ Len(sent') = Len(sent) + 1
              /\ sent'[Len(sent')].merged)
             => FirstGoesToBest(sent'[Len(sent')],
                                MapGet(mergedTools, reqs'[r].name).originalTools)
      ]_vars

\* a merged invocation went first to the second member of the merged tool
SecondMemberFirst ==
    \E i \in 1..Len(sent) :
        /\ sent[i].merged
        /\ sent[i].rank = 1
        /\ MapHas(mergedTools, sent[i].name)
        /\ Len(MapGet(mergedTools, sent[i].name).originalTools) = 2
        /\ sent[i].serverId = MapGet(mergedTools, sent[i].name).originalTools[2].serverId

\* C4: one merged invocation contacts at most four providers.
AtMostFourContacted ==
    \A i \in 1..Len(sent) :
        sent[i].merged => Cardinality(Attempts(sent[i].owner)) <= 4

\* C5: a remote request goes only to a provider that is connected when the
\* request is made, a request for pid:name goes to pid, and a call of
\* pid:name with pid absent or not connected fails without any request.
OnlyConnectedContacted ==
    [][/\ \A i \in (Len(sent) + 1)..Len(sent') :
             /\ IsConnected(servers, sent'[i].serverId)
             /\ sent'[i].status = "connected"
             /\ ~sent'[i].merged =>
                    sent'[i].name = sent'[i].serverId \o ":" \o sent'[i].toolName
       /\ \A r \in 1..MaxReqs :
             (/\ Arrives(r)
              /\ Includes(reqs'[r].name, ":")
              /\ ~IsConnected(servers, parseToolIdentifier(reqs'[r].name).serverId))
             => /\ sent' = sent
                /\ reqs'[r].pc = "done"
                /\ reqs'[r].response.isError
      ]_vars

\* a merged invocation ended after skipping a member that was no longer
\* connected
MemberSkipped ==
    \E r \in 1..MaxReqs :
        /\ reqs[r].pc = "done"
        /\ Len(reqs[r].tasks) = 1
        /\ reqs[r].tasks[1].merged
        /\ reqs[r].tasks[1].st = "err"
        /\ Attempts(<<r, 1>>) # {}
        /\ Cardinality(Attempts(<<r, 1>>)) < Len(reqs[r].tasks[1].sorted)

LastAttempt(o) == CHOOSE i \in Attempts(o) : \A j \in Attempts(o) : j <= i

\* C6: when every attempt of a merged invocation has failed the caller gets
\* one error result whose message contains the message of the last attempt's
\* error.
LastErrorSurfaced ==
    \A r \in 1..MaxReqs :
        (/\ reqs[r].pc = "done"
         /\ Len(reqs[r].tasks) = 1
         /\ reqs[r].tasks[1].merged
         /\ reqs[r].tasks[1].st = "err"
         /\ Attempts(<<r, 1>>) # {})
        => /\ \A i \in Attempts(<<r, 1>>) : sent[i].outcome = "fail"
           /\ reqs[r].response.isError
           /\ reqs[r].response.results = <<>>
           /\ Includes(reqs[r].response.text, sent[LastAttempt(<<r, 1>>)].answer)

\* a merged invocation whose two attempts both failed
TwoAttemptsFailed ==
    \E r \in 1..MaxReqs :
        /\ reqs[r].pc = "done"
        /\ Len(reqs[r].tasks) = 1
        /\ reqs[r].tasks[1].merged
        /\ reqs[r].tasks[1].st = "err"
        /\ Cardinality(Attempts(<<r, 1>>)) = 2

\* C7: every call that the handler has begun completes with a result.
EveryCallCompletes == (reqs[1].pc = "running") ~> (reqs[1].pc = "done")

\* C8: the settling of a remote request raises totalCalls of its provider
\* and tool by exactly 1, and failureCount by 1 if it failed and by 0 if not.
MetricsOncePerAttempt ==
    [][\A i \in 1..Len(sent) :
          Settles(i) =>
              /\ EntryOf(performanceMetrics', i).totalCalls
                     = EntryOf(performanceMetrics, i).totalCalls + 1
              /\ EntryOf(performanceMetrics', i).failureCount
                     = EntryOf(performanceMetrics, i).failureCount
                       + (IF sent'[i].outcome = "fail" THEN 1 ELSE 0)
      ]_vars

\* the (providerId, toolName) pairs with a metrics entry
MetricsKeys(pm) ==
    {k \in (DOMAIN pm) \X {"read", "get_random"} : k[2] \in DOMAIN pm[k[1]]}

\* C9: every metrics entry has 0 <= failureCount <= totalCalls, a
\* successRate of (totalCalls - failureCount) / totalCalls once called, and a
\* totalCalls that no step lowers.
MetricsWellFormed ==
    [][\A k \in MetricsKeys(performanceMetrics') :
          /\ 0 <= performanceMetrics'[k[1]][k[2]].failureCount
          /\ performanceMetrics'[k[1]][k[2]].failureCount
                 <= performanceMetrics'[k[1]][k[2]].totalCalls
          /\ performanceMetrics'[k[1]][k[2]].totalCalls > 0 =>
                 performanceMetrics'[k[1]][k[2]].successRate
                     = Rat(performanceMetrics'[k[1]][k[2]].totalCalls
                               - performanceMetrics'[k[1]][k[2]].failureCount,
                           performanceMetrics'[k[1]][k[2]].totalCalls)
          /\ k \in MetricsKeys(performanceMetrics) =>
                 performanceMetrics'[k[1]][k[2]].totalCalls
                     >= performanceMetrics[k[1]][k[2]].totalCalls
      ]_vars

\* the rule of section 4.4 for what may be cached
StatedCacheable(toolName, args) ==
    /\ \A word \in {"random", "uuid", "current_time", "now"} : ~Includes(toolName, word)
    /\ \A word \in {"timestamp", "current"} :
          ~Includes(toLowerCase(StringifyArgs(args)), word)

\* remote request i is the latest that succeeded for the provider, tool and
\* arguments of the namespaced call name(args), and the entry it made has not
\* expired
FirstCallOf(i, name, args) ==
    /\ sent[i].outcome = "ok"
    /\ sent[i].serverId \o ":" \o sent[i].toolName = name
    /\ sent[i].args = args
    /\ StatedCacheable(sent[i].toolName, args)
    /\ \A j \in 1..Len(sent) :
          (j > i /\ sent[j].serverId = sent[i].serverId
                 /\ sent[j].toolName = sent[i].toolName /\ sent[j].args = args)
          => sent[j].outcome # "ok"
    /\ RatLT(<<now, 1>>,
             RatAdd(<<sent[i].settled, 1>>,
                    getTTLForToolType(cache, determineToolType(sent[i].toolName))))

\* C10: cache round trip. A namespaced call repeated before the entry of the
\* first call expires returns the first call's value, sends nothing, leaves
\* the metrics alone; if the first call made the only probe of the cache so
\* far, totalRequests is then 2 and totalHits 1.
CacheRoundTrip ==
    [][\A r \in 1..MaxReqs : \A i \in 1..Len(sent) :
          (Arrives(r) /\ FirstCallOf(i, reqs'[r].name, reqs'[r].args)) =>
              /\ reqs'[r].pc = "done"
              /\ reqs'[r].response = OkResponse(StringifyResult(sent[i].answer))
              /\ sent' = sent
              /\ performanceMetrics' = performanceMetrics
              /\ cache.totalRequests = 1 =>
                     cache'.totalRequests = 2 /\ cache'.totalHits = 1
      ]_vars

\* C11: cache.set of the result of a successful remote call is a no-op
\* exactly when the tool name contains "random", "uuid", "current_time" or
\* "now" or the lower-cased JSON of the arguments contains "timestamp" or
\* "current"; otherwise the result is stored under the call's key.
SetRejectsAsStated ==
    [][\A i \in 1..Len(sent) :
          (Settles(i) /\ sent'[i].outcome = "ok") =>
              IF StatedCacheable(sent[i].toolName, sent[i].args)
              THEN \E e \in Range(cache'.entries) :
                       e.key = KeyOf(i) /\ e.data = sent'[i].answer
              ELSE cache'.entries = cache.entries
      ]_vars

\* the entry of key in cache c has an expiry later than t
LiveAt(c, key, t) ==
    /\ Stored(c, key)
    /\ RatLT(<<t, 1>>, c.entries[KeyIndex(c.entries, key)].expiry)

\* C12: a get returns a value only from an entry whose expiry is later than
\* the time of the get, and a get that finds an entry whose expiry is not
\* later removes it, counts a request and no hit, and returns nothing.
GetReturnsOnlyLive ==
    \A n \in 1..Len(cacheLog) :
        cacheLog[n].op = "get" =>
            /\ cacheLog[n].hit =>
                   /\ LiveAt(cacheLog[n].before, cacheLog[n].key, cacheLog[n].t)
                   /\ cacheLog[n].data
                          = cacheLog[n].before.entries[
                                KeyIndex(cacheLog[n].before.entries, cacheLog[n].key)].data
            /\ (/\ Stored(cacheLog[n].before, cacheLog[n].key)
                /\ ~LiveAt(cacheLog[n].before, cacheLog[n].key, cacheLog[n].t))
               => /\ ~cacheLog[n].hit
                  /\ ~Stored(cacheLog[n].after, cacheLog[n].key)
                  /\ cacheLog[n].after.totalRequests
                         = cacheLog[n].before.totalRequests + 1
                  /\ cacheLog[n].after.totalHits = cacheLog[n].before.totalHits

\* a get found an entry at the very millisecond of its expiry, and removed it
ExpiredAtGetRemoved ==
    \E n \in 1..Len(cacheLog) :
        /\ cacheLog[n].op = "get"
        /\ Stored(cacheLog[n].before, cacheLog[n].key)
        /\ cacheLog[n].before.entries[
               KeyIndex(cacheLog[n].before.entries, cacheLog[n].key)].expiry
             = <<cacheLog[n].t, 1>>
        /\ ~Stored(cacheLog[n].after, cacheLog[n].key)

\* C13: immediately after every set the cache holds at most maxSize entries.
SizeWithinMaxAfterSet ==
    \A n \in 1..Len(cacheLog) :
        cacheLog[n].op = "set" =>
            Len(cacheLog[n].after.entries) <= cacheLog[n].after.maxSize

\* two arguments objects with the same members, in any order
SameObject(a, b) == a.defined /\ b.defined /\ Range(a.fields) = Range(b.fields)

\* C14: a namespaced call whose arguments are, as an object, those of an
\* earlier successful call whose result is in the cache is served from the
\* cache, whatever the order of the keys: it counts a hit and sends nothing.
KeyOrderIgnored ==
    [][\A r \in 1..MaxReqs : \A i \in 1..Len(sent) :
          (/\ Arrives(r)
           /\ sent[i].outcome = "ok"
           /\ sent[i].serverId \o ":" \o sent[i].toolName = reqs'[r].name
           /\ SameObject(sent[i].args, reqs'[r].args)
           /\ Stored(cache, KeyOf(i))) =>
              /\ sent' = sent
              /\ cache'.totalHits = cache.totalHits + 1
      ]_vars

\* C15: a call of a meta-tool changes no entry of the performance metrics,
\* and unless it is batch_execute it sends nothing, leaves the entries of the
\* cache as they are and counts neither a request nor a hit, whether it
\* returns or throws; batch_execute counts only the probes of the
\* operations it delegates: one per cache hit and one per request sent.
MetaToolsLeaveStatsAlone ==
    [][\A r \in 1..MaxReqs :
          (Arrives(r) /\ reqs'[r].name \in Range(MetaTools)) =>
              /\ performanceMetrics' = performanceMetrics
              /\ IF reqs'[r].name = "batch_execute"
                 THEN cache'.totalRequests - cache.totalRequests
                          = (Len(sent') - Len(sent))
                                + (cache'.totalHits - cache.totalHits)
                 ELSE /\ sent' = sent
                      /\ cache'.entries = cache.entries
                      /\ cache'.totalRequests = cache.totalRequests
                      /\ cache'.totalHits = cache.totalHits
      ]_vars

\* get_cache_stats has returned with a result of an earlier call in the
\* cache, one request counted and one call in the metrics
StatsReadAfterCall ==
    /\ reqs[2].pc = "done"
    /\ reqs[2].name = "get_cache_stats"
    /\ ~reqs[2].response.isError
    /\ Len(cache.entries) = 1
    /\ cache.totalRequests = 1
    /\ performanceMetrics["A"]["read"].totalCalls = 1

\* the names of the tools of a map, in the order of the map
NamesOf(m) == [i \in 1..Len(m) |-> m[i].name]

\* C16: every tool listing is the eight meta-tools in their fixed order
\* followed by the tools of the merged map when deduplication is enabled and
\* the merged map is not empty, and by the tools of the namespaced map
\* otherwise, and by nothing else.
ListingIsMetaThenOneMap ==
    [][upstream'.tools # upstream.tools =>
          /\ NamesOf(SubSeq(upstream'.tools, 1, 8))
                 = <<"discover_servers", "analyze_usage", "get_cache_stats",
                     "suggest_tools", "batch_execute", "optimize_routing",
                     "configure_deduplication", "analyze_tool_similarity">>
          /\ NamesOf(SubSeq(upstream'.tools, 9, Len(upstream'.tools)))
                 = IF dedupConfig.enabled /\ mergedTools # <<>>
                   THEN NamesOf(mergedTools)
                   ELSE NamesOf(allTools)
      ]_vars

\* a listing of the merged tools was given while the namespaced tools were
\* others, and more
MergedListed ==
    /\ upstream.listed
    /\ dedupConfig.enabled
    /\ mergedTools # <<>>
    /\ Len(allTools) > Len(mergedTools)
    /\ NamesOf(SubSeq(upstream.tools, 9, Len(upstream.tools))) = NamesOf(mergedTools)

\* C17: when a configure_deduplication call that gives `enabled` arrives, the
\* merged map becomes the one built from the tools of the providers connected
\* at that moment, and one more notification has been sent upstream.
ToggleRebuildsAndNotifies ==
    [][\A r \in 1..MaxReqs :
          (/\ Arrives(r)
           /\ reqs'[r].name = "configure_deduplication"
           /\ reqs'[r].args.defined
           /\ reqs'[r].args.enabled # <<>>) =>
              /\ dedupConfig'.enabled = reqs'[r].args.enabled[1]
              /\ mergedTools' = refreshToolsList(servers, dedupConfig')[2]
              /\ upstream'.notifications = upstream.notifications + 1
      ]_vars

\* the part of C17 the code does (the rebuild)
ToggleRebuilds ==
    [][\A r \in 1..MaxReqs :
          (/\ Arrives(r)
           /\ reqs'[r].name = "configure_deduplication"
           /\ reqs'[r].args.defined
           /\ reqs'[r].args.enabled # <<>>) =>
              /\ dedupConfig'.enabled = reqs'[r].args.enabled[1]
              /\ mergedTools' = refreshToolsList(servers, dedupConfig')[2]
      ]_vars

\* the configs of provider id, by their place in the discovered list
ConfigsOf(id) == {i \in 1..Len(configs) : configs[i].id = id}

\* C18: of the configs that share an id only the first is used: the
\* connection of a later one is never established, and the registry never
\* holds the session of a later one.
DuplicateRejected ==
    \A i \in 1..Len(configs) :
        (\E k \in ConfigsOf(configs[i].id) : k < i) =>
            /\ conn[i] # "ok"
            /\ \A s \in 1..Len(servers) : servers[s].session # i

\* the commands a config may start with
Whitelist == {"node", "python", "python3", "npx", "uv", "pipx", "deno", "bun"}

\* C19: a config whose command is empty or does not start with a command of
\* the whitelist is never spawned and never appears in the registry.
UnsafeCommandNeverUsed ==
    \A i \in 1..Len(configs) :
        (configs[i].command = <<>> \/ configs[i].command[1] \notin Whitelist) =>
            /\ sessions[i] = "none"
            /\ ~ServerHas(servers, configs[i].id)

\* C20: every connection attempt that has failed left the provider in the
\* registry as disconnected, with no session, no tools, failureCount = 1 and
\* successRate = 0; every attempt that has succeeded left it connected with
\* the tools it advertised; and once every attempt has ended, whatever the
\* outcomes, the startup can finish, and has then settled every config.
StartupKeepsEveryProvider ==
    /\ \A i \in 1..Len(configs) :
          /\ conn[i] = "failed" =>
                /\ ServerHas(servers, configs[i].id)
                /\ ServerGet(servers, configs[i].id).status = "disconnected"
                /\ ServerGet(servers, configs[i].id).session = 0
                /\ ServerGet(servers, configs[i].id).tools = <<>>
                /\ ServerGet(servers, configs[i].id).metrics.failureCount = 1
                /\ ServerGet(servers, configs[i].id).metrics.successRate = <<0, 1>>
          /\ conn[i] = "ok" =>
                /\ ServerHas(servers, configs[i].id)
                /\ ServerGet(servers, configs[i].id).status = "connected"
                /\ ServerGet(servers, configs[i].id).session # 0
                /\ ServerGet(servers, configs[i].id).tools = ToolsOf(configs[i].id)
    /\ (startup = "connecting" /\ \A i \in 1..Len(configs) : conn[i] \in {"ok", "failed"})
           => ENABLED FinishStartup
    /\ startup = "ready" => \A i \in 1..Len(configs) : conn[i] \in {"ok", "failed"}

\* the startup has finished with one provider failed and the other connected
StartedWithOneFailed ==
    /\ startup = "ready"
    /\ conn = <<"failed", "ok">>
    /\ Len(servers) = 2

\* C21: a provider whose transport has failed is in the registry with status
\* disconnected and no session, its metrics are still there, and no request
\* is sent to it from then on.
LostProviderDisconnected ==
    [][\A i \in 1..Len(configs) :
          sessions[i] = "lost" =>
              /\ ServerHas(servers', configs[i].id)
              /\ ServerGet(servers', configs[i].id).status = "disconnected"
              /\ ServerGet(servers', configs[i].id).session = 0
              /\ configs[i].id \in DOMAIN performanceMetrics'
              /\ \A k \in (Len(sent) + 1)..Len(sent') : sent'[k].session # i
      ]_vars

\* C22: when shutdown closes the upstream session every connection that was
\* established is closed already, a provider without a session is passed
\* over, and a shutdown that is called after shutdown has returned closes
\* nothing: the sessions and the upstream session stay as they were.
ShutdownClosesAllOnce ==
    [][/\ (~closing.upstreamClosed /\ closing'.upstreamClosed) =>
              \A i \in 1..Len(configs) : conn[i] = "ok" => sessions'[i] # "open"
       /\ (closing.phase = "closing" /\ closing.i <= Len(servers)
             /\ closing'.i = closing.i + 1 /\ servers[closing.i].session = 0) =>
              sessions' = sessions
       /\ (closing.calls > 1 /\ closing' # closing) =>
              /\ sessions' = sessions
              /\ closing'.upstreamClosed
      ]_vars

\* a second shutdown has returned, after a first one that closed a session
\* and passed over a provider that had none
ShutDownTwice ==
    /\ closing.calls = 2
    /\ closing.phase = "done"
    /\ \E i \in 1..Len(configs) : conn[i] = "ok" /\ sessions[i] = "closed"
    /\ \E i \in 1..Len(configs) : conn[i] = "failed"

\* C23: a remote request that was sent on an open session and fails after
\* shutdown has closed that session changes nothing in the performance
\* metrics.
ShutdownFailuresNotCounted ==
    [][\A i \in 1..Len(sent) :
          (/\ Settles(i)
           /\ sent'[i].outcome = "fail"
           /\ sent[i].link = "open"
           /\ sessions[sent[i].session] = "closed") =>
              performanceMetrics' = performanceMetrics
      ]_vars

\* the wave of operation p (counted from 1) of batch request r
WaveOf(r, p) == (p - 1) \div reqs[r].limit

\* the remote requests of batch request r
BatchSent(r) == {k \in 1..Len(sent) : sent[k].owner[1] = r}

\* C24: in a batch_execute with concurrency c >= 1, the operations that
\* have a request pending are at most c and belong to one wave, every request
\* of an earlier wave has settled once a request of a later wave exists, and
\* the response has one result per operation, in the order of the operations:
\* fulfilled with the answer of the operation's successful request, rejected
\* when it has none.
BatchRunsInWaves ==
    \A r \in 1..MaxReqs :
        (reqs[r].batch /\ reqs[r].limit >= 1) =>
            /\ Cardinality({sent[k].owner[2] :
                               k \in {h \in BatchSent(r) : sent[h].outcome = "pending"}})
                   <= reqs[r].limit
            /\ \A k1, k2 \in BatchSent(r) :
                  WaveOf(r, sent[k1].owner[2]) < WaveOf(r, sent[k2].owner[2]) =>
                      /\ sent[k1].outcome # "pending"
                      /\ k1 < k2
            /\ reqs[r].pc = "done" =>
                  /\ Len(reqs[r].response.results) = Len(reqs[r].ops)
                  /\ \A p \in 1..Len(reqs[r].ops) :
                        /\ reqs[r].response.results[p].operation = <<reqs[r].ops[p]>>
                        /\ IF \E k \in Attempts(<<r, p>>) : sent[k].outcome = "ok"
                           THEN /\ reqs[r].response.results[p].status = "fulfilled"
                                /\ \E k \in Attempts(<<r, p>>) :
                                      /\ sent[k].outcome = "ok"
                                      /\ reqs[r].response.results[p].value = sent[k].answer
                           ELSE reqs[r].response.results[p].status = "rejected"

\* a batch with concurrency 2 has answered: its second operation was
\* rejected, and the third and fourth, of the second wave, were both answered
\* by their providers
SecondWaveOutOfOrder ==
    /\ reqs[1].pc = "done"
    /\ reqs[1].batch
    /\ reqs[1].limit = 2
    /\ reqs[1].response.results[2].status = "rejected"
    /\ reqs[1].response.results[4].status = "fulfilled"
    /\ \E k3 \in Attempts(<<1, 3>>), k4 \in Attempts(<<1, 4>>) :
          /\ k3 < k4
          /\ sent[k4].outcome = "ok"
          /\ sent[k3].answer = "V" \o Digit(k3)
          /\ sent[k4].answer = "V" \o Digit(k4)

\* C25: every merged tool mergeTools returns, for a short list and for a list
\* of more than a hundred tools, has at least one member, has for primary
\* provider the provider of one of its members, and has confidence 1 when it
\* has one member.
MergedToolWellFormed ==
    (applied.fn = "mergeTools" /\ applied.done) =>
        \A i \in 1..Len(applied.result) :
            /\ Len(applied.result[i].originalTools) >= 1
            /\ \E k \in 1..Len(applied.result[i].originalTools) :
                  applied.result[i].originalTools[k].serverId = applied.result[i].serverId
            /\ Len(applied.result[i].originalTools) = 1 =>
                  applied.result[i].confidence = <<1, 1>>

\* mergeTools has returned, for a list of more than a hundred tools, a tool
\* of several members whose primary provider is not the provider of its
\* first member
LargeListMerged ==
    /\ applied.fn = "mergeTools"
    /\ applied.done
    /\ Len(applied.args) > LargeSetLimit
    /\ \E j \in 1..Len(applied.result) :
          /\ Len(applied.result[j].originalTools) > 1
          /\ applied.result[j].serverId # applied.result[j].originalTools[1].serverId

\* the tools of a mergeTools result, as a set
ToolSet(result) ==
    {[name |-> result[i].name, description |-> result[i].description,
      inputSchema |-> result[i].inputSchema, serverId |-> result[i].serverId] :
        i \in 1..Len(result)}

\* C26: mergeTools applied to the merged tools of a previous run, each taken
\* as a single tool, merges none of them and returns the same set of tools.
DedupIdempotent ==
    (applied.fn = "mergeTools" /\ applied.done /\ applied.first # <<>>) =>
        /\ \A i \in 1..Len(applied.result) : Len(applied.result[i].originalTools) = 1
        /\ ToolSet(applied.result) = ToolSet(applied.first[1])

\* C27: calculateStringSimilarity gives two strings the same similarity in
\* either order.
SimilaritySymmetric ==
    (applied.fn = "similarity" /\ applied.done /\ applied.first # <<>>) =>
        applied.result = applied.first[1]

\* two strings of different lengths and different first letters have been
\* compared in both orders and are partly similar
ComparedBothWays ==
    /\ applied.fn = "similarity"
    /\ applied.done
    /\ applied.first # <<>>
    /\ Len(applied.args[1]) = MaxLen
    /\ Len(applied.args[2]) = MaxLen - 1
    /\ CharAt(applied.args[1], 1) # CharAt(applied.args[2], 1)
    /\ RatLT(<<0, 1>>, applied.result)
    /\ RatLT(applied.result, <<1, 1>>)
    /\ applied.result = applied.first[1]

\* C28: calculateStringSimilarity gives 1 to a string and itself, the empty
\* string included, and 0 to a non-empty string and the empty string.
SimilarityOfEqualAndEmpty ==
    (applied.fn = "similarity" /\ applied.done) =>
        /\ applied.args[1] = applied.args[2] => applied.result = <<1, 1>>
        /\ (applied.args[1] = "") # (applied.args[2] = "") => applied.result = <<0, 1>>

\* the tool type of the entry that the get logged as e read
TypeOfHit(e) == e.before.entries[KeyIndex(e.before.entries, e.key)].toolType

\* the requests counted for a tool type by the first n operations: the hits
\* on entries of that type
TypeRequests(log, n, toolType) ==
    Cardinality({k \in 1..n : /\ log[k].op = "get"
                             /\ log[k].hit
                             /\ TypeOfHit(log[k]) = toolType})

\* the entries of a tool type that have not expired at time t
LiveOfType(c, toolType, t) ==
    SelectSeq(c.entries, LAMBDA e : e.toolType = toolType /\ RatLT(<<t, 1>>, e.expiry))

\* average hitCount of the live entries of the type over the requests
\* counted for the type, 0 when there are none
TypeHitRate(c, toolType, t, requests) ==
    IF requests = 0 \/ LiveOfType(c, toolType, t) = <<>> THEN <<0, 1>>
    ELSE RatDiv(AvgHitCount(LiveOfType(c, toolType, t)), <<requests, 1>>)

TypesIn(c) == {c.entries[i].toolType : i \in 1..Len(c.entries)}

\* C29: the hit rate of a tool type that getStats uses to adapt the TTL is
\* the average hitCount of the live entries of the type divided by the
\* requests counted for the type (the hits on its entries), 0 when no
\* request was counted; the global totalRequests plays no part.
TypeHitRatePerType ==
    \A k \in 1..Len(cacheLog) :
        cacheLog[k].op = "stats" =>
            \A ty \in TypesIn(cacheLog[k].before) :
                ToolTypeHitRate(cacheLog[k].before, ty)
                    = TypeHitRate(cacheLog[k].before, ty, cacheLog[k].t,
                                  TypeRequests(cacheLog, k - 1, ty))

\* every TTL of the map lies between one minute and one hour
TTLWithinBounds ==
    \A ty \in DOMAIN cache.toolTypeTTL :
        /\ RatLE(<<MinTTL, 1>>, cache.toolTypeTTL[ty])
        /\ RatLE(cache.toolTypeTTL[ty], <<MaxTTL, 1>>)

\* what the getStats logged as e did to the TTL of a tool type, given the
\* hit rate of the type: a raise needs a rate above 0.7, a cut one below 0.2
AdjustedByRate(e, ty, rate) ==
    /\ RatLT(getTTLForToolType(e.before, ty), getTTLForToolType(e.after, ty)) =>
          /\ RatLT(<<7, 10>>, rate)
          /\ getTTLForToolType(e.after, ty)
                = RatMin(RatMul(getTTLForToolType(e.before, ty), <<6, 5>>), <<MaxTTL, 1>>)
    /\ RatLT(getTTLForToolType(e.after, ty), getTTLForToolType(e.before, ty)) =>
          /\ RatLT(rate, <<1, 5>>)
          /\ getTTLForToolType(e.after, ty)
                = RatMax(RatMul(getTTLForToolType(e.before, ty), <<4, 5>>), <<MinTTL, 1>>)

\* C30: the TTL of every tool type stays within [60000, 3600000]; getStats
\* raises the TTL of a type (by a fifth, capped) only when the hit rate of
\* the type is above 0.7, cuts it (by a fifth, floored) only when the rate
\* is below 0.2, and leaves it alone otherwise.
TTLFollowsTypeHitRate ==
    /\ TTLWithinBounds
    /\ \A k \in 1..Len(cacheLog) :
          cacheLog[k].op = "stats" =>
              \A ty \in StatTypes :
                  AdjustedByRate(cacheLog[k], ty,
                                 TypeHitRate(cacheLog[k].before, ty, cacheLog[k].t,
                                             TypeRequests(cacheLog, k - 1, ty)))

\* the same with the hit rate that getToolTypeMetrics computes
TTLFollowsComputedRate ==
    /\ TTLWithinBounds
    /\ \A k \in 1..Len(cacheLog) :
          cacheLog[k].op = "stats" =>
              \A ty \in StatTypes :
                  /\ ty \in TypesIn(cacheLog[k].before) =>
                        AdjustedByRate(cacheLog[k], ty,
                                       ToolTypeHitRate(cacheLog[k].before, ty))
                  /\ ty \notin TypesIn(cacheLog[k].before) =>
                        getTTLForToolType(cacheLog[k].after, ty)
                            = getTTLForToolType(cacheLog[k].before, ty)

KeysOf(c) == {c.entries[i].key : i \in 1..Len(c.entries)}

\* the keys that the set logged as e removed from the cache
EvictedBy(e) == KeysOf(e.before) \ KeysOf(e.after)

\* the set logged as e adds a key to a cache that is full
WouldExceed(e) ==
    /\ e.op = "set"
    /\ shouldCache(e.key, e.data)
    /\ ~Stored(e.before, e.key)
    /\ Len(e.before.entries) >= e.before.maxSize

\* a set removes an entry only when it adds a key to a full cache
EvictsOnlyOnOverflow ==
    \A n \in 1..Len(cacheLog) :
        (cacheLog[n].op = "set" /\ EvictedBy(cacheLog[n]) # {}) => WouldExceed(cacheLog[n])

\* a set that adds a key to a full cache removes one entry, of the least
\* lastAccess
OverflowEvictsOldest ==
    \A n \in 1..Len(cacheLog) :
        WouldExceed(cacheLog[n]) =>
            /\ Cardinality(EvictedBy(cacheLog[n])) = 1
            /\ \A i \in 1..Len(cacheLog[n].before.entries) :
                  cacheLog[n].before.entries[i].key \in EvictedBy(cacheLog[n]) =>
                      \A j \in 1..Len(cacheLog[n].before.entries) :
                          cacheLog[n].before.entries[i].lastAccess
                              <= cacheLog[n].before.entries[j].lastAccess

\* C31: a set evicts only when it would make the size exceed maxSize (a set
\* that overwrites a key evicts nothing), and then it evicts exactly one
\* entry, one whose lastAccess is the least of all entries.
EvictionOnlyOnOverflowOfOldest == EvictsOnlyOnOverflow /\ OverflowEvictsOldest

\* C32: an invocation of a tool probes the cache once, when it begins and
\* before any remote attempt: the step that begins an invocation raises
\* totalRequests by at most one, and no later step of the invocation (a
\* fallback candidate tried after a failure) raises it at all.
CacheProbedOncePerInvocation ==
    [][IF \E r \in 1..MaxReqs : reqs[r].pc = "idle" /\ reqs'[r].pc # "idle"
       THEN cache'.totalRequests <= cache.totalRequests + 1
       ELSE cache'.totalRequests = cache.totalRequests]_vars

\* the (provider, tool name) pairs of the members of the merged map
MergedMembers(merged) ==
    UNION {{<<merged[i].originalTools[k].serverId, merged[i].originalTools[k].tool.name>> :
               k \in 1..Len(merged[i].originalTools)} : i \in 1..Len(merged)}

\* the (provider, tool name) pairs of the namespaced map
NamespacedEntries(all) ==
    {<<all[i].serverId, parseToolIdentifier(all[i].name).toolName>> : i \in 1..Len(all)}

\* the two maps are those of one complete rebuild: the merged map is filled
\* exactly when deduplication is enabled, from the tools of the namespaced map
MapsWhole ==
    /\ allTools = <<>> => mergedTools = <<>>
    /\ allTools # <<>> => (dedupConfig.enabled <=> mergedTools # <<>>)
    /\ mergedTools # <<>> => MergedMembers(mergedTools) = NamespacedEntries(allTools)

\* an invocation that awaits a remote call keeps its candidate list, and its
\* next attempt goes to a later candidate of that list
SnapshotKept ==
    \A r \in 1..MaxReqs : \A j \in 1..Len(reqs[r].tasks) :
        reqs[r].tasks[j].st = "await" =>
            /\ j <= Len(reqs'[r].tasks) => reqs'[r].tasks[j].sorted = reqs[r].tasks[j].sorted
            /\ \A i \in (Len(sent) + 1)..Len(sent') :
                  sent'[i].owner = <<r, j>> =>
                      /\ sent'[i].rank > reqs[r].tasks[j].k
                      /\ sent'[i].rank <= Len(reqs[r].tasks[j].sorted)
                      /\ sent'[i].serverId = reqs[r].tasks[j].sorted[sent'[i].rank].serverId
                      /\ sent'[i].toolName = reqs[r].tasks[j].sorted[sent'[i].rank].toolName

\* C33: refreshToolsList is atomic for the upstream requests: between two
\* steps, where a list or call request can run, the maps are never partially
\* rebuilt, and a merged invocation that resolved its candidates before a
\* rebuild goes on with them when the rebuild happens during its await.
RebuildAtomicForRequests ==
    /\ []MapsWhole
    /\ [][SnapshotKept]_vars

\* a merged call went to A; deduplication was switched off while it was
\* awaited, so the merged map is empty; A failed and the call went on to B
FallbackAfterRebuild ==
    /\ Len(sent) = 2
    /\ reqs[2].name = "configure_deduplication"
    /\ reqs[2].pc = "done"
    /\ mergedTools = <<>>
    /\ allTools # <<>>
    /\ sent[1].owner = sent[2].owner
    /\ sent[1].merged
    /\ sent[1].outcome = "fail"
    /\ sent[2].serverId # sent[1].serverId
    /\ sent[1].t < reqs[2].startTime
    /\ reqs[2].startTime < sent[2].t

\* the names of the members of a merged tool
MemberNames(m) == {m.originalTools[k].tool.name : k \in 1..Len(m.originalTools)}

\* the name similarity below which the large-set mode is said not to merge
NameGroupThreshold == <<3, 5>>

\* C34: when mergeTools is given more than 100 tools, no merged tool has two
\* members whose names have a similarity below 0.6.
LargeSetKeepsFarNamesApart ==
    (applied.fn = "mergeTools" /\ applied.done /\ Len(applied.args) > LargeSetLimit) =>
        \A i \in 1..Len(applied.result) :
            \A a, b \in MemberNames(applied.result[i]) :
                ~RatLT(calculateStringSimilarity(a, b), NameGroupThreshold)

\* the members of the merged tools, in the order of the output
RECURSIVE MembersRange(_, _, _)
MembersRange(out, lo, hi) ==
    IF lo > hi THEN <<>>
    ELSE IF lo = hi THEN out[lo].originalTools
    ELSE MembersRange(out, lo, (lo + hi) \div 2)
             \o MembersRange(out, (lo + hi) \div 2 + 1, hi)

\* how many times the entry e occurs in the list
Occurrences(list, e) == Cardinality({k \in 1..Len(list) : list[k] = e})

\* C35: with deduplication enabled, mergeTools partitions its input: every
\* input entry is a member of exactly one merged tool, on the small-set path
\* and on the large-set path, so the member counts sum to the input length.
MergeToolsPartitions ==
    (applied.fn = "mergeTools" /\ applied.done /\ dedupConfig.enabled) =>
        /\ Len(MembersRange(applied.result, 1, Len(applied.result))) = Len(applied.args)
        /\ \A e \in Range(applied.args) :
              Occurrences(MembersRange(applied.result, 1, Len(applied.result)), e)
                  = Occurrences(applied.args, e)
        /\ \A i \in 1..Len(applied.result) : Len(applied.result[i].originalTools) >= 1

\* a large list was split into a merged tool of several members and others
LargeListPartitioned ==
    /\ applied.fn = "mergeTools"
    /\ applied.done
    /\ Len(applied.args) > LargeSetLimit
    /\ Len(applied.result) >= 2
    /\ \E i \in 1..Len(applied.result) : Len(applied.result[i].originalTools) >= 2
    /\ \E i \in 1..Len(applied.result) : Len(applied.result[i].originalTools) = 1

\* the names of a listing
NamesListed(listing) == {listing[i].name : i \in 1..Len(listing)}

\* C36: once the server has started, while deduplication is enabled and the
\* merged map is not empty, every tool of every connected provider is a
\* member of a merged tool that the listing shows, also when two groups of
\* tools get the same name.
EveryToolInListedMergedTool ==
    (startup = "ready" /\ dedupConfig.enabled /\ mergedTools # <<>>) =>
        \A s \in 1..Len(servers) :
            servers[s].status = "connected" =>
                \A k \in 1..Len(servers[s].tools) :
                    \E i \in 1..Len(mergedTools) :
                        /\ <<servers[s].id, servers[s].tools[k].name>>
                              \in MergedMembers(<<mergedTools[i]>>)
                        /\ mergedTools[i].name
                              \in NamesListed(ListToolsHandler(dedupConfig, allTools,
                                                               mergedTools))

\* C37: after every configure_deduplication call made once the server has
\* started, the merged map is mergeTools of the tools of the connected
\* providers under the configuration now in force, also when the call
\* changes the similarity threshold only.
ConfigureRebuildsMergedMap ==
    [][\A r \in 1..MaxReqs :
          (/\ startup = "ready"
           /\ Arrives(r)
           /\ reqs'[r].name = "configure_deduplication"
           /\ reqs'[r].args.defined) =>
              mergedTools' = refreshToolsList(servers', dedupConfig')[2]
      ]_vars

\* C38: the qualified name of a tool of a registered provider parses back to
\* the provider and the tool, so two entries of the namespaced map never
\* share a name, and a call of a namespaced tool is sent to the provider
\* that advertised it, under the tool's own name.
QualifiedNamesRoundTrip ==
    /\ \A s \in 1..Len(servers) : \A k \in 1..Len(servers[s].tools) :
          parseToolIdentifier(servers[s].id \o ":" \o servers[s].tools[k].name)
              = [serverId |-> servers[s].id, toolName |-> servers[s].tools[k].name]
    /\ \A i \in 1..Len(allTools) :
          parseToolIdentifier(allTools[i].name).serverId = allTools[i].serverId
    /\ \A i \in 1..Len(sent) :
          (~sent[i].merged /\ MapHas(allTools, sent[i].name)) =>
              /\ sent[i].serverId = MapGet(allTools, sent[i].name).serverId
              /\ sent[i].serverId \o ":" \o sent[i].toolName = sent[i].name

\* the part of C38 about the calls alone
NamespacedCallReachesAdvertiser ==
    \A i \in 1..Len(sent) :
        (~sent[i].merged /\ MapHas(allTools, sent[i].name)) =>
            sent[i].serverId = MapGet(allTools, sent[i].name).serverId

\* C39: a batch_execute call that has begun ends, with one result for each
\* of its operations, whatever its concurrency (0 and negative numbers
\* included), when every remote call settles.
BatchTerminates ==
    (reqs[1].batch /\ reqs[1].pc = "running")
        ~> (/\ reqs[1].pc = "done"
            /\ Len(reqs[1].response.results) = Len(reqs[1].ops))

\* a batch that has ended holds one result for each operation
BatchEndedWithAllResults ==
    (reqs[1].batch /\ reqs[1].pc = "done") =>
        Len(reqs[1].response.results) = Len(reqs[1].ops)

\* the batches of positive or default concurrency end
PositiveBatchTerminates ==
    (reqs[1].batch /\ reqs[1].pc = "running" /\ reqs[1].limit >= 1)
        ~> (reqs[1].pc = "done")

\* C40: once shutdown has returned (the registry is cleared and the upstream
\* session closed) no step sends a remote tools/call request to a provider:
\* the list of requests sent grows no further.
NothingSentAfterShutdown ==
    [][closing.upstreamClosed => Len(sent') = Len(sent)]_vars

\* the first operation of a batch was sent to A and failed when shutdown
\* closed A; the second was sent to B, whose session start() established
\* only after shutdown had returned, and is still open
SentToLateProvider ==
    /\ closing.upstreamClosed
    /\ Len(sent) = 2
    /\ sent[1].serverId = "A" /\ sent[1].outcome = "fail"
    /\ sent[2].serverId = "B" /\ sent[2].status = "connected"
    /\ sent[2].session # 0 /\ sessions[sent[2].session] = "open"

====
